---- MODULE Spec2Model ----
(***************************************************************************)
(* The AccountEntry screen of the player area: the settlement computation  *)
(* (calculateAmounts / calculateEditingAmounts), the loads that feed it     *)
(* (fetchAccountData, fetchBrokerData, fetchTaxRate) and the two forms      *)
(* whose fields trigger it.  Later sections add the screens around it:     *)
(* the player's dashboard, the admin's tax rate, Accounts and Players      *)
(* screens, and the login page with the listener of AuthProvider.          *)
(*                                                                         *)
(* Money: raw balances and profitLoss are whole units.  Every derived       *)
(* amount (clicker, account holder, broker, tax, referral, company) is kept *)
(* in hundredths of a unit, so that the code's `x * p / 100` is exact for   *)
(* whole x and p.  The code computes in IEEE doubles; rounding of doubles   *)
(* is not modelled.                                                         *)
(***************************************************************************)
EXTENDS Integers, Sequences, FiniteSets, TLC

VARIABLES
  db,            \* the store documents this screen reads
  userData,      \* useAuth().userData
  account,       \* useState<Account | null>
  broker,        \* useState<Broker | null>
  entries,       \* useState<Entry[]>
  currentEntry,  \* useState<Entry>
  editingEntry,  \* useState<Entry | null>
  taxRate,       \* useState(10)
  loading,       \* useState(true)
  fetches,       \* the loads started by the mount effect that have not returned
  pending,       \* settlement computations suspended at their agent lookup
  accounts,      \* the admin's Accounts screen: useState<Account[]>, for this account
  remembered,    \* an earlier settlement computation, kept to compare later ones with
  inactivePlayers \* the admin's Players screen: useState<Player[]>

vars == <<db, userData, account, broker, entries, currentEntry, editingEntry,
          taxRate, loading, fetches, pending, accounts, remembered,
          inactivePlayers>>

\* What no handler of the AccountEntry screen writes.
outside == <<accounts, remembered, inactivePlayers>>

----------------------------------------------------------------------------
(* Values *)

\* An optional number (a field that may be undefined, or '' in a form) is a
\* sequence of length at most one.
None == <<>>
Some(n) == <<n>>

\* JavaScript `x || 0` on an optional number.
OrZero(x) == IF x = None THEN 0 ELSE x[1]

\* JavaScript truthiness of an optional number.
Truthy(x) == x # None /\ x[1] # 0

\* null for the nullable pieces of component state.
Null == [null |-> TRUE]

\* A document that does not exist in the store.
NoDoc == [exists |-> FALSE]

\* The divisor of every percentage in the computation.
Percent == 100

\* A whole amount expressed in hundredths.
Centi(x) == x * Percent

\* useState(10): the tax rate before the settings document is read.
DefaultTaxRate == 10

Today == "d1"
Yesterday == "d0"

----------------------------------------------------------------------------
(* Bounds *)

\* Settlement computations that may be suspended when the user types again.
MaxPending == 2

\* What the user may type into each raw field of the entry form
\* (None is the emptied input).
FieldValues ==
  [ startingBalance |-> {Some(1500)},
    endingBalance   |-> {None, Some(1500)},
    refillAmount    |-> {Some(50)},
    withdrawal      |-> {Some(200)} ]

\* What the user may type into the entry form while the inline edit form
\* is in use.
LoadedFieldValues ==
  [ startingBalance |-> {},
    endingBalance   |-> {Some(1500)},
    refillAmount    |-> {Some(50)},
    withdrawal      |-> {} ]

\* What the user may type into the inline edit form of a saved entry.
EditFieldValues ==
  [ startingBalance |-> {},
    endingBalance   |-> {Some(1500)},
    refillAmount    |-> {Some(50)},
    withdrawal      |-> {} ]

RawFields == {"startingBalance", "endingBalance", "refillAmount", "withdrawal"}

BrokerDoc(type, pct, flat) ==
  [exists |-> TRUE, commissionType |-> type,
   commissionPercentage |-> pct, flatCommission |-> flat]

AgentDoc(pct, flat) ==
  [exists |-> TRUE, commissionPercentage |-> pct, flatCommission |-> flat]

\* A saved entry of an earlier day, settled when every rate was 0.
StoredEntry ==
  [ id |-> Some(1), date |-> Yesterday,
    startingBalance |-> Some(100), endingBalance |-> Some(300),
    refillAmount |-> Some(0), withdrawal |-> Some(100),
    profitLoss |-> 300, clickerAmount |-> 0, accHolderAmount |-> 0,
    brokerAmount |-> 0, companyAmount |-> 30000, taxableAmount |-> 0,
    referralAmount |-> 0, accountStatus |-> "active" ]

\* The store documents a session may find, one set per document or field.
\* setup: <<type, depositAmount, saved entries>> of the account
\* broker: <<brokerId of the account, the broker document of that id>>
\* taxRate: the value of settings/taxRate, None when the document is missing
ConfigChoices ==
  [ setup    |-> { <<"pph", None, <<StoredEntry>> >>,
                   <<"pph", None, <<>> >>,
                   <<"legal", Some(1000), <<>> >> },
    promo    |-> { None, Some(150) },
    referral |-> { None, Some(0), Some(5), Some(0 - 5) },
    broker   |-> { <<"", NoDoc>>,
                   <<"b1", NoDoc>>,
                   <<"b1", BrokerDoc("percentage", Some(10), Some(25))>>,
                   <<"b1", BrokerDoc("flat", Some(10), Some(25))>>,
                   <<"b1", BrokerDoc("both", Some(10), Some(25))>>,
                   <<"b1", BrokerDoc("both", Some(10), None)>> },
    agent    |-> { AgentDoc(Some(10), None), AgentDoc(Some(10), Some(20)), NoDoc },
    player   |-> { None, Some(0), Some(50), Some(100) },
    taxRate  |-> { None, Some(0), Some(20) } ]

AllConfigs ==
  [ setup : ConfigChoices.setup, promo : ConfigChoices.promo,
    referral : ConfigChoices.referral, broker : ConfigChoices.broker,
    agent : ConfigChoices.agent, player : ConfigChoices.player,
    taxRate : ConfigChoices.taxRate ]

\* The choices of documents that differ from `base` in at most one of them.
Near(base) ==
  { c \in AllConfigs :
      \E d1 \in DOMAIN base : \A d \in DOMAIN base \ {d1} : c[d] = base[d] }

\* An account with every party: a broker paid both ways, an agent with a flat
\* commission, a referral, a stored tax rate.
BaseConfig ==
  [ setup    |-> <<"pph", None, <<StoredEntry>> >>,
    promo    |-> None,
    referral |-> Some(5),
    broker   |-> <<"b1", BrokerDoc("both", Some(10), Some(25))>>,
    agent    |-> AgentDoc(Some(10), Some(20)),
    player   |-> Some(50),
    taxRate  |-> Some(20) ]

\* The same account with no flat commission.
FlatFreeConfig ==
  [ BaseConfig EXCEPT !.broker = <<"b1", BrokerDoc("both", Some(10), None)>>,
                      !.agent = AgentDoc(Some(10), None) ]

\* The sessions explored from the mount of the screen.
Configs == Near(BaseConfig)

\* The sessions explored with the inline edit form: accounts with a saved entry.
EditingConfigs ==
  { c \in Near(BaseConfig) \cup Near(FlatFreeConfig) : c.setup[3] # <<>> }

----------------------------------------------------------------------------
(* The settlement computation *)

\* ProfitLoss without the account's promo amount in the effective start.
ProfitLossIgnoringPromo(entry, acct) ==
  OrZero(entry.endingBalance) - OrZero(entry.startingBalance)
    + OrZero(entry.withdrawal) - OrZero(entry.refillAmount)

\* effectiveStarting and profitLoss
ProfitLoss(entry, acct) ==
  LET effectiveStarting ==
        OrZero(entry.startingBalance)
          + (IF acct = Null THEN 0 ELSE OrZero(acct.promoAmount))
  IN  OrZero(entry.endingBalance) - effectiveStarting
        + OrZero(entry.withdrawal) - OrZero(entry.refillAmount)

\* ClickerAmount taken on the profit net of tax.
ClickerAmountOnNet(profitLoss, user) ==
  ((Centi(profitLoss) - profitLoss * taxRate) * OrZero(user.percentage)) \div Percent

\* ClickerAmount that shares profits only.
ClickerAmountOnProfitOnly(profitLoss, user) ==
  IF profitLoss < 0 THEN 0
  ELSE Centi(profitLoss * OrZero(user.percentage)) \div Percent

ClickerAmount(profitLoss, user) ==
  Centi(profitLoss * OrZero(user.percentage)) \div Percent

\* AccHolderAmount that adds the flat commission on a profit only.
AccHolderAmountFlatOnProfit(profitLoss, agentData) ==
  IF agentData.exists
  THEN (Centi(profitLoss * OrZero(agentData.commissionPercentage)) \div Percent)
         + (IF profitLoss > 0 THEN Centi(OrZero(agentData.flatCommission)) ELSE 0)
  ELSE 0

AccHolderAmount(profitLoss, agentData) ==
  IF agentData.exists
  THEN (Centi(profitLoss * OrZero(agentData.commissionPercentage)) \div Percent)
         + Centi(OrZero(agentData.flatCommission))
  ELSE 0

\* BrokerAmount whose 'both' branch forgets the flat commission.
BrokerAmountBothWithoutFlat(profitLoss, brk, acct) ==
  IF brk # Null /\ acct.brokerId # ""
  THEN CASE brk.commissionType = "flat" -> Centi(OrZero(brk.flatCommission))
         [] OTHER -> Centi(profitLoss * OrZero(brk.commissionPercentage)) \div Percent
  ELSE 0

\* BrokerAmount that pays nothing when there is no profit or loss.
BrokerAmountNoneAtZero(profitLoss, brk, acct) ==
  IF brk # Null /\ acct.brokerId # "" /\ profitLoss # 0
  THEN CASE brk.commissionType = "percentage" ->
              Centi(profitLoss * OrZero(brk.commissionPercentage)) \div Percent
         [] brk.commissionType = "flat" ->
              Centi(OrZero(brk.flatCommission))
         [] OTHER ->
              (Centi(profitLoss * OrZero(brk.commissionPercentage)) \div Percent)
                + Centi(OrZero(brk.flatCommission))
  ELSE 0

BrokerAmount(profitLoss, brk, acct) ==
  IF brk # Null /\ acct.brokerId # ""
  THEN CASE brk.commissionType = "percentage" ->
              Centi(profitLoss * OrZero(brk.commissionPercentage)) \div Percent
         [] brk.commissionType = "flat" ->
              Centi(OrZero(brk.flatCommission))
         [] brk.commissionType = "both" ->
              (Centi(profitLoss * OrZero(brk.commissionPercentage)) \div Percent)
                + Centi(OrZero(brk.flatCommission))
         [] OTHER -> 0
  ELSE 0

\* TaxAmount taken on the profit net of the player's share.
TaxAmountOnNet(profitLoss, rate) ==
  ((Centi(profitLoss) - profitLoss * OrZero(userData.percentage)) * rate) \div Percent

\* TaxAmount that taxes profits only.
TaxAmountOnProfitOnly(profitLoss, rate) ==
  IF profitLoss < 0 THEN 0 ELSE Centi(profitLoss * rate) \div Percent

\* TaxAmount with the rate the screen holds when the computation ends.
TaxAmountAtCompletion(profitLoss, rate) ==
  Centi(profitLoss * taxRate) \div Percent

TaxAmount(profitLoss, rate) ==
  Centi(profitLoss * rate) \div Percent

\* ReferralAmount that pays a positive percentage only.
ReferralAmountPositiveOnly(profitLoss, acct) ==
  IF OrZero(acct.referralPercentage) > 0
  THEN Centi(profitLoss * acct.referralPercentage[1]) \div Percent
  ELSE 0

ReferralAmount(profitLoss, acct) ==
  IF Truthy(acct.referralPercentage)
  THEN Centi(profitLoss * acct.referralPercentage[1]) \div Percent
  ELSE 0

\* CompanyAmount that forgets the referral.
CompanyAmountWithoutReferral(profitLoss, clickerAmount, accHolderAmount, brokerAmount, taxAmount, referralAmount) ==
  Centi(profitLoss) - clickerAmount - accHolderAmount - brokerAmount - taxAmount

CompanyAmount(profitLoss, clickerAmount, accHolderAmount, brokerAmount, taxAmount, referralAmount) ==
  Centi(profitLoss) - clickerAmount - accHolderAmount - brokerAmount
    - taxAmount - referralAmount

\* What a computation holds while it awaits the agent document: the values it
\* computed before the await and the component state its closure captured.
Closure(target, entry, acct, brk, rate) ==
  LET profitLoss == ProfitLoss(entry, acct) IN
  [ target |-> target,
    profitLoss |-> profitLoss,
    clickerAmount |-> ClickerAmount(profitLoss, userData),
    account |-> acct, broker |-> brk, taxRate |-> rate ]

\* The entry after the setter that ends a computation.
Settled(prev, c, agentData) ==
  LET accHolderAmount == AccHolderAmount(c.profitLoss, agentData)
      brokerAmount    == BrokerAmount(c.profitLoss, c.broker, c.account)
      taxAmount       == TaxAmount(c.profitLoss, c.taxRate)
      referralAmount  == ReferralAmount(c.profitLoss, c.account)
      companyAmount   == CompanyAmount(c.profitLoss, c.clickerAmount,
                           accHolderAmount, brokerAmount, taxAmount, referralAmount)
  IN  [ prev EXCEPT !.profitLoss = c.profitLoss,
                    !.clickerAmount = c.clickerAmount,
                    !.accHolderAmount = accHolderAmount,
                    !.brokerAmount = brokerAmount,
                    !.companyAmount = companyAmount,
                    !.taxableAmount = taxAmount,
                    !.referralAmount = referralAmount ]

\* calculateAmounts up to its first await, run by the effect on the entry
\* `entry` with the component state of the same render.
\* Without account or user it only writes profitLoss and returns.
calculateAmountsEntry(entry, acct) ==
  IF acct = Null \/ userData = Null
  THEN [entry EXCEPT !.profitLoss = ProfitLoss(entry, acct)]
  ELSE entry

calculateAmountsPending(entry, acct, brk, rate) ==
  IF acct = Null \/ userData = Null
  THEN {}
  ELSE {Closure("current", entry, acct, brk, rate)}

\* calculateEditingAmounts up to its first await; the effect returns at once
\* without an entry being edited, an account and a user.
calculateEditingAmountsPending(edit, acct, brk, rate) ==
  IF edit = Null \/ acct = Null \/ userData = Null
  THEN {}
  ELSE {Closure("editing", edit, acct, brk, rate)}

----------------------------------------------------------------------------
(* Initial state: the screen has mounted, both loads are on their way *)

InitialEntry ==
  [ id |-> None, date |-> Today,
    startingBalance |-> Some(0), endingBalance |-> Some(0),
    refillAmount |-> Some(0), withdrawal |-> Some(0),
    profitLoss |-> 0, clickerAmount |-> 0, accHolderAmount |-> 0,
    brokerAmount |-> 0, companyAmount |-> 0, taxableAmount |-> 0,
    referralAmount |-> 0, accountStatus |-> "active" ]

\* The store and the signed-in player of a session.
\* entries: the entries of this account written by this player, as the
\*          queries of the screen find them
\* others:  the number of entries of this account written by other players
\* nextId:  the id the store gives the next entry added
Store(c) ==
  [ account |-> [ exists |-> TRUE, type |-> c.setup[1],
                  depositAmount |-> c.setup[2], agentId |-> "a1",
                  brokerId |-> c.broker[1],
                  referralPercentage |-> c.referral,
                  promoAmount |-> c.promo,
                  status |-> IF c.setup[3] = <<>> THEN "unused" ELSE "active",
                  assignedToPlayerUid |-> "u1",
                  username |-> IF c.setup[1] = "pph" THEN Some("user") ELSE None,
                  websiteURL |-> IF c.setup[1] = "pph" THEN Some("site") ELSE None,
                  password |-> IF c.setup[1] = "pph" THEN Some("pw") ELSE None,
                  deal |-> IF c.setup[1] = "pph" THEN Some("") ELSE None,
                  name |-> IF c.setup[1] = "legal" THEN Some("name") ELSE None,
                  sharePercentage |-> IF c.setup[1] = "legal" THEN Some(0) ELSE None ],
    agent |-> c.agent,
    broker |-> c.broker[2],
    taxRate |-> c.taxRate,
    entries |-> c.setup[3],
    others |-> 0,
    nextId |-> 2 ]

Player(c) == [uid |-> "u1", percentage |-> c.player]

Init ==
  /\ \E c \in Configs :
       /\ db = Store(c)
       /\ userData = Player(c)
  /\ account = Null
  /\ broker = Null
  /\ entries = <<>>
  /\ currentEntry = InitialEntry
  /\ editingEntry = Null
  /\ taxRate = DefaultTaxRate
  /\ loading = TRUE
  /\ fetches = {"fetchAccountData", "fetchTaxRate"}
  /\ pending = {}
  /\ accounts = Null
  /\ remembered = Null
  /\ inactivePlayers = {}

----------------------------------------------------------------------------
(* Loads *)

\* The rate fetchTaxRate leaves in taxRate: the stored value when the
\* settings document exists.
FetchedTaxRate(rate) ==
  IF db.taxRate # None THEN db.taxRate[1] ELSE rate

\* fetchTaxRate with taxRate missing from the dependencies of the effects.
fetchTaxRateWithoutEffect ==
  /\ "fetchTaxRate" \in fetches
  /\ fetches' = fetches \ {"fetchTaxRate"}
  /\ taxRate' = FetchedTaxRate(taxRate)
  /\ UNCHANGED <<db, userData, account, broker, entries, currentEntry,
                 editingEntry, loading, pending>>
  /\ UNCHANGED outside

\* fetchTaxRate returns.  taxRate is a dependency of both effects: a changed
\* value runs them again.
fetchTaxRate ==
  /\ "fetchTaxRate" \in fetches
  /\ fetches' = fetches \ {"fetchTaxRate"}
  /\ LET rate == FetchedTaxRate(taxRate) IN
     /\ taxRate' = rate
     /\ IF rate # taxRate
        THEN /\ currentEntry' = calculateAmountsEntry(currentEntry, account)
             /\ pending' = pending
                  \cup calculateAmountsPending(currentEntry, account, broker, rate)
                  \cup calculateEditingAmountsPending(editingEntry, account, broker, rate)
        ELSE UNCHANGED <<currentEntry, pending>>
  /\ UNCHANGED <<db, userData, account, broker, entries, editingEntry, loading>>
  /\ UNCHANGED outside

\* The order of the yyyy-MM-dd strings of the two days.
DateRank(date) == IF date = Yesterday THEN 0 ELSE 1

\* The entry with the latest date, as the descending sort of the prefill finds
\* it.  The comparator answers -1 for equal dates; the insertion sort of the
\* engine then puts the later of two such entries first.
RECURSIVE LatestOf(_)
LatestOf(es) ==
  IF Len(es) = 1 THEN es[1]
  ELSE LET rest == LatestOf(Tail(es)) IN
       IF DateRank(es[1].date) > DateRank(rest.date) THEN es[1] ELSE rest

\* The status fetchAccountData derives from the stored status and the entries.
DerivedStatus(accountData, es) ==
  LET stored == IF accountData.status = "" THEN "unused" ELSE accountData.status IN
  IF Len(es) > 0 THEN "active"
  ELSE IF stored # "inactive" THEN "unused" ELSE stored

\* The account fetchAccountData sets.
FetchedAccount(accountData, es) ==
  [ type |-> accountData.type,
    agentId |-> accountData.agentId,
    brokerId |-> accountData.brokerId,
    status |-> DerivedStatus(accountData, es),
    depositAmount |-> accountData.depositAmount,
    referralPercentage |-> accountData.referralPercentage,
    promoAmount |-> accountData.promoAmount ]

\* fetchBrokerData: the broker is set when the account names one and its
\* document exists; otherwise the state keeps what it held.
FetchedBroker(accountData, brk) ==
  IF accountData.brokerId # "" /\ db.broker.exists THEN db.broker ELSE brk

\* The current entry fetchAccountData sets: today's saved entry, or the
\* entry at hand with its status and its starting balance prefilled.
FetchedEntry(accountData, es, entry) ==
  LET todays == {i \in 1..Len(es) : es[i].date = Today}
      status == DerivedStatus(accountData, es)
      prefillStarting ==
        IF accountData.type = "pph" /\ Len(es) > 0
        THEN OrZero(LatestOf(es).endingBalance) ELSE 0
  IN  IF todays # {}
      THEN es[CHOOSE i \in todays : \A j \in todays : i <= j]
      ELSE [ entry EXCEPT
               !.accountStatus = IF status = "unused" THEN "active" ELSE status,
               !.startingBalance =
                  IF accountData.type = "legal"
                  THEN Some(OrZero(accountData.depositAmount))
                  ELSE Some(prefillStarting) ]

\* fetchAccountData returns (with the fetchBrokerData it awaits): account,
\* broker, entries and the current entry are set, then the effects run on the
\* new account and broker.
fetchAccountData ==
  /\ "fetchAccountData" \in fetches
  /\ fetches' = fetches \ {"fetchAccountData"}
  /\ loading' = FALSE
  /\ IF db.account.exists
     THEN LET acct == FetchedAccount(db.account, db.entries)
              brk == FetchedBroker(db.account, broker)
              entry == FetchedEntry(db.account, db.entries, currentEntry)
          IN  /\ account' = acct
              /\ broker' = brk
              /\ entries' = db.entries
              /\ currentEntry' = calculateAmountsEntry(entry, acct)
              /\ pending' = pending
                   \cup calculateAmountsPending(entry, acct, brk, taxRate)
                   \cup calculateEditingAmountsPending(editingEntry, acct, brk, taxRate)
     ELSE UNCHANGED <<account, broker, entries, currentEntry, pending>>
  /\ UNCHANGED <<db, userData, editingEntry, taxRate>>
  /\ UNCHANGED outside

----------------------------------------------------------------------------
(* The entry form *)

\* handleInputChange on a raw field, and the effect its change triggers.
\* The form is rendered once loading is over and the account is set.
handleInputChange(field, value) ==
  /\ ~loading /\ account # Null
  /\ Cardinality(pending) < MaxPending
  /\ currentEntry[field] # value
  /\ LET entry == [currentEntry EXCEPT ![field] = value] IN
     /\ currentEntry' = calculateAmountsEntry(entry, account)
     /\ pending' = pending \cup calculateAmountsPending(entry, account, broker, taxRate)
  /\ UNCHANGED <<db, userData, account, broker, entries, editingEntry,
                 taxRate, loading, fetches>>
  /\ UNCHANGED outside

\* The agent lookup of a calculateAmounts returns and the computation ends.
calculateAmounts(c) ==
  /\ c \in pending /\ c.target = "current"
  /\ pending' = pending \ {c}
  /\ currentEntry' = Settled(currentEntry, c, db.agent)
  /\ UNCHANGED <<db, userData, account, broker, entries, editingEntry,
                 taxRate, loading, fetches>>
  /\ UNCHANGED outside

----------------------------------------------------------------------------
(* The inline edit form of a saved entry *)

\* The balances of the edited entry the effect depends on
\* (editingEntry?.startingBalance, ...): nothing without an entry.
EditingDeps(entry) ==
  IF entry = Null THEN <<>>
  ELSE << entry.startingBalance, entry.endingBalance,
          entry.withdrawal, entry.refillAmount >>

\* The edit button of a listed entry that is not being edited:
\* setEditingEntry(entry), and the effect when its dependencies changed.
startEditing(i) ==
  /\ ~loading /\ account # Null
  /\ i \in 1..Len(entries)
  /\ IF editingEntry = Null THEN TRUE ELSE editingEntry.id # entries[i].id
  /\ Cardinality(pending) < MaxPending
  /\ editingEntry' = entries[i]
  /\ pending' =
       IF EditingDeps(entries[i]) # EditingDeps(editingEntry)
       THEN pending
              \cup calculateEditingAmountsPending(entries[i], account, broker, taxRate)
       ELSE pending
  /\ UNCHANGED <<db, userData, account, broker, entries, currentEntry,
                 taxRate, loading, fetches>>
  /\ UNCHANGED outside

\* The cancel button: setEditingEntry(null).
cancelEditing ==
  /\ editingEntry # Null
  /\ editingEntry' = Null
  /\ UNCHANGED <<db, userData, account, broker, entries, currentEntry,
                 taxRate, loading, fetches, pending>>
  /\ UNCHANGED outside

\* handleEditInputChange on a raw field, and the effect its change triggers.
handleEditInputChange(field, value) ==
  /\ editingEntry # Null
  /\ Cardinality(pending) < MaxPending
  /\ editingEntry[field] # value
  /\ LET edit == [editingEntry EXCEPT ![field] = value] IN
     /\ editingEntry' = edit
     /\ pending' = pending
          \cup calculateEditingAmountsPending(edit, account, broker, taxRate)
  /\ UNCHANGED <<db, userData, account, broker, entries, currentEntry,
                 taxRate, loading, fetches>>
  /\ UNCHANGED outside

\* The agent lookup of a calculateEditingAmounts returns and the computation
\* ends: setEditingEntry(prev => prev ? {...} : null).
calculateEditingAmounts(c) ==
  /\ c \in pending /\ c.target = "editing"
  /\ pending' = pending \ {c}
  /\ editingEntry' = IF editingEntry # Null
                     THEN Settled(editingEntry, c, db.agent) ELSE Null
  /\ UNCHANGED <<db, userData, account, broker, entries, currentEntry,
                 taxRate, loading, fetches>>
  /\ UNCHANGED outside

----------------------------------------------------------------------------

Next ==
  \/ fetchTaxRate
  \/ fetchAccountData
  \/ \E field \in RawFields : \E value \in FieldValues[field] :
       handleInputChange(field, value)
  \/ \E c \in pending : calculateAmounts(c)

\* The screen from its mount: the two loads, the entry form, the computations.
Spec == Init /\ [][Next]_vars

\* The screen once both loads have returned and the first computation has
\* ended, for an account with a saved entry.
InitLoaded ==
  /\ \E c \in EditingConfigs :
       /\ db = Store(c)
       /\ userData = Player(c)
  /\ account = FetchedAccount(db.account, db.entries)
  /\ broker = FetchedBroker(db.account, Null)
  /\ entries = db.entries
  /\ taxRate = FetchedTaxRate(DefaultTaxRate)
  /\ LET entry == FetchedEntry(db.account, db.entries, InitialEntry) IN
     currentEntry = Settled(entry,
                            Closure("current", entry, account, broker, taxRate),
                            db.agent)
  /\ editingEntry = Null
  /\ loading = FALSE
  /\ fetches = {}
  /\ pending = {}
  /\ accounts = Null
  /\ remembered = Null
  /\ inactivePlayers = {}

NextEditing ==
  \/ \E field \in RawFields : \E value \in LoadedFieldValues[field] :
       handleInputChange(field, value)
  \/ \E c \in pending : calculateAmounts(c)
  \/ \E i \in 1..Len(entries) : startEditing(i)
  \/ cancelEditing
  \/ \E field \in RawFields : \E value \in EditFieldValues[field] :
       handleEditInputChange(field, value)
  \/ \E c \in pending : calculateEditingAmounts(c)

\* The entry form and the inline edit form of a loaded screen.
SpecEditing == InitLoaded /\ [][NextEditing]_vars

----------------------------------------------------------------------------
(* Properties *)

\* The number an optional field counts for.
Val(x) == IF Len(x) = 0 THEN 0 ELSE x[1]

\* The profit or loss of an entry for an account, from its raw balances.
RawProfitLoss(entry, acct) ==
  Val(entry.endingBalance)
    - (Val(entry.startingBalance) + Val(acct.promoAmount))
    + Val(entry.withdrawal) - Val(entry.refillAmount)

\* The six amounts of an entry add up to its profitLoss (in hundredths).
Conserved(entry) ==
  entry.clickerAmount + entry.accHolderAmount + entry.brokerAmount
    + entry.taxableAmount + entry.referralAmount + entry.companyAmount
  = 100 * entry.profitLoss

\* C1: the profitLoss a computation of calculateAmounts or
\* calculateEditingAmounts starts with, and writes to its entry when it ends,
\* is endingBalance - (startingBalance + account promoAmount) + withdrawal
\* - refillAmount of the entry it ran on, an absent value counting as 0.
C1_ProfitLoss ==
  [][ /\ \A c \in pending' \ pending :
           c.profitLoss =
             RawProfitLoss(IF c.target = "current"
                           THEN currentEntry' ELSE editingEntry', account')
      /\ \A c \in pending :
           /\ calculateAmounts(c) => currentEntry'.profitLoss = c.profitLoss
           /\ (calculateEditingAmounts(c) /\ editingEntry' # Null)
                => editingEntry'.profitLoss = c.profitLoss ]_vars

C1_Witness ==
  /\ pending = {}
  /\ account.promoAmount = Some(150)
  /\ currentEntry.endingBalance = Some(1500) /\ currentEntry.refillAmount = Some(50)
  /\ currentEntry.profitLoss = 1500 - (300 + 150) + 0 - 50
  /\ editingEntry # Null
  /\ editingEntry.endingBalance = Some(1500) /\ editingEntry.refillAmount = Some(50)
  /\ editingEntry.profitLoss = 1500 - (100 + 150) + 100 - 50

\* C2: the amounts of the current entry always add up to its profitLoss:
\* clicker + account holder + broker + tax + referral + company = profitLoss,
\* the company amount being the residual, negative when the others exceed it.
C2_Conservation == Conserved(currentEntry)

C2_Witness ==
  /\ currentEntry.profitLoss = 200
  /\ currentEntry.clickerAmount = 10000
  /\ currentEntry.referralAmount = 1000
  /\ currentEntry.companyAmount = 0 - 3500

\* The broker amount of a computation, from the broker it captured.
ExpectedBrokerAmount(c) ==
  IF c.broker = Null \/ c.account.brokerId = ""
  THEN 0
  ELSE LET pct  == c.profitLoss * Val(c.broker.commissionPercentage)
           flat == 100 * Val(c.broker.flatCommission)
       IN  CASE c.broker.commissionType = "percentage" -> pct
             [] c.broker.commissionType = "flat" -> flat
             [] c.broker.commissionType = "both" -> pct + flat

\* C3: a computation that ends writes brokerAmount 0 without a broker,
\* profitLoss * commissionPercentage / 100 for 'percentage', flatCommission
\* for 'flat', their sum for 'both'; the 'both' amount is what the same broker
\* would get as 'percentage' plus what it would get as 'flat'.
C3_BrokerAmount ==
  [][ \A c \in pending : calculateAmounts(c) =>
        /\ currentEntry'.brokerAmount = ExpectedBrokerAmount(c)
        /\ (c.broker # Null /\ c.broker.commissionType = "both") =>
             currentEntry'.brokerAmount =
               BrokerAmount(c.profitLoss,
                            [c.broker EXCEPT !.commissionType = "percentage"],
                            c.account)
               + BrokerAmount(c.profitLoss,
                              [c.broker EXCEPT !.commissionType = "flat"],
                              c.account) ]_vars

C3_Witness ==
  /\ broker # Null /\ broker.commissionType = "both"
  /\ broker.flatCommission = Some(25)
  /\ currentEntry.profitLoss = 200
  /\ currentEntry.brokerAmount = 2000 + 2500

\* C4: a computation that ends writes accHolderAmount = profitLoss *
\* commissionPercentage / 100 + flatCommission of the agent, the flat
\* commission in full whatever the sign of profitLoss.
C4_AccHolderAmount ==
  [][ \A c \in pending : calculateAmounts(c) =>
        currentEntry'.accHolderAmount =
          IF db.agent.exists
          THEN c.profitLoss * Val(db.agent.commissionPercentage)
                 + 100 * Val(db.agent.flatCommission)
          ELSE 0 ]_vars

C4_Witness ==
  /\ db.agent.exists /\ db.agent.flatCommission = Some(20)
  /\ currentEntry.profitLoss = 0 - 300
  /\ currentEntry.accHolderAmount = 0 - 3000 + 2000

\* C5: a computation that ends writes taxableAmount = profitLoss * taxRate
\* / 100, on the gross profitLoss, whatever the other amounts are.
C5_TaxableAmount ==
  [][ \A c \in pending : calculateAmounts(c) =>
        currentEntry'.taxableAmount = c.profitLoss * c.taxRate ]_vars

C5_Witness ==
  /\ taxRate = 20
  /\ currentEntry.profitLoss = 200
  /\ currentEntry.taxableAmount = 4000
  /\ currentEntry.clickerAmount = 10000
  /\ currentEntry.brokerAmount = 4500

\* C6: a computation that ends writes clickerAmount = profitLoss * the
\* player's percentage / 100, on the gross profitLoss.
C6_ClickerAmount ==
  [][ /\ \A c \in pending' \ pending :
           c.clickerAmount = c.profitLoss * Val(userData.percentage)
      /\ \A c \in pending : calculateAmounts(c) =>
           currentEntry'.clickerAmount = c.profitLoss * Val(userData.percentage) ]_vars

C6_Witness ==
  /\ userData.percentage = Some(100)
  /\ taxRate = 20
  /\ currentEntry.profitLoss = 0 - 300
  /\ currentEntry.clickerAmount = 0 - 30000
  /\ currentEntry.taxableAmount = 0 - 6000

\* C7 as stated: referralAmount is profitLoss * referralPercentage / 100 when
\* the percentage is greater than 0, and 0 for every other percentage.
C7_PositiveOnly ==
  [][ \A c \in pending : calculateAmounts(c) =>
        currentEntry'.referralAmount =
          IF Val(c.account.referralPercentage) > 0
          THEN c.profitLoss * Val(c.account.referralPercentage)
          ELSE 0 ]_vars

\* C7: a computation that ends writes referralAmount = profitLoss *
\* referralPercentage / 100 when the account has a referral percentage other
\* than 0, negative ones included, and 0 when it is absent or 0.
C7_ReferralAmount ==
  [][ \A c \in pending : calculateAmounts(c) =>
        currentEntry'.referralAmount =
          IF c.account.referralPercentage # <<>>
             /\ c.account.referralPercentage[1] # 0
          THEN c.profitLoss * c.account.referralPercentage[1]
          ELSE 0 ]_vars

C7_Witness ==
  /\ account # Null
  /\ account.referralPercentage = Some(0 - 5)
  /\ currentEntry.profitLoss = 200
  /\ currentEntry.referralAmount = 0 - 1000

\* C8: a negative profitLoss goes through as it is: the computation starts
\* with the negative value its raw balances give, and when it ends the
\* amounts taken with a positive percentage are negative and the amounts
\* still add up to the profitLoss.
C8_NegativeProfitLoss ==
  [][ /\ \A c \in pending' \ pending :
           (c.target = "current" /\ RawProfitLoss(currentEntry', account') < 0)
             => c.profitLoss = RawProfitLoss(currentEntry', account')
      /\ \A c \in pending : (calculateAmounts(c) /\ c.profitLoss < 0) =>
           /\ currentEntry'.profitLoss = c.profitLoss
           /\ Val(userData.percentage) > 0 => currentEntry'.clickerAmount < 0
           /\ c.taxRate > 0 => currentEntry'.taxableAmount < 0
           /\ Val(c.account.referralPercentage) > 0 => currentEntry'.referralAmount < 0
           /\ (db.agent.exists /\ Val(db.agent.commissionPercentage) > 0) =>
                currentEntry'.accHolderAmount - 100 * Val(db.agent.flatCommission) < 0
           /\ (c.broker # Null /\ c.broker.commissionType = "percentage"
                 /\ Val(c.broker.commissionPercentage) > 0) =>
                currentEntry'.brokerAmount < 0
           /\ (c.broker # Null /\ c.broker.commissionType = "both"
                 /\ Val(c.broker.commissionPercentage) > 0) =>
                currentEntry'.brokerAmount - 100 * Val(c.broker.flatCommission) < 0
           /\ Conserved(currentEntry') ]_vars

C8_Witness ==
  /\ currentEntry.profitLoss = 0 - 300
  /\ currentEntry.clickerAmount = 0 - 15000
  /\ currentEntry.taxableAmount = 0 - 6000
  /\ currentEntry.referralAmount = 0 - 1500
  /\ currentEntry.accHolderAmount = 0 - 1000
  /\ currentEntry.brokerAmount = 0 - 500
  /\ currentEntry.companyAmount = 0 - 6000

AmountFields ==
  { "clickerAmount", "accHolderAmount", "brokerAmount", "taxableAmount",
    "referralAmount", "companyAmount" }

Factors == (0 - 10) .. 10

\* Neither the agent nor the broker has a flat commission.
FlatFree ==
  /\ db.agent.exists => Val(db.agent.flatCommission) = 0
  /\ broker # Null => Val(broker.flatCommission) = 0

\* C9: without flat commissions, when the computations of the entry form and
\* of the edit form have ended and the profitLoss of one entry is k times the
\* profitLoss of the other, each of its six amounts is k times the other's,
\* for positive and negative k.
C9_Proportional ==
  (pending = {} /\ editingEntry # Null /\ FlatFree) =>
    \A k \in Factors :
      /\ editingEntry.profitLoss = k * currentEntry.profitLoss =>
           \A f \in AmountFields : editingEntry[f] = k * currentEntry[f]
      /\ currentEntry.profitLoss = k * editingEntry.profitLoss =>
           \A f \in AmountFields : currentEntry[f] = k * editingEntry[f]

C9_Witness ==
  /\ pending = {} /\ editingEntry # Null /\ FlatFree
  /\ currentEntry.profitLoss = 0 - 300
  /\ editingEntry.profitLoss = 1500
  /\ currentEntry.clickerAmount = 0 - 15000
  /\ editingEntry.clickerAmount = 75000
  /\ currentEntry.brokerAmount = 0 - 3000
  /\ editingEntry.companyAmount = (0 - 5) * currentEntry.companyAmount
  /\ currentEntry.companyAmount # 0

\* The raw inputs of the zero-input identity.
ZeroInput(entry, acct) ==
  /\ Val(entry.startingBalance) = Val(entry.endingBalance)
  /\ Val(entry.refillAmount) = 0
  /\ Val(entry.withdrawal) = 0
  /\ Val(acct.promoAmount) = 0

\* C10: with startingBalance = endingBalance and refillAmount = withdrawal =
\* promoAmount = 0 a computation starts with profitLoss 0, and a computation
\* that ends with profitLoss 0 writes 0 to every amount except the agent's
\* flat commission to accHolderAmount, the broker's flat commission (types
\* 'flat' and 'both') to brokerAmount, and minus their sum to companyAmount.
C10_ZeroInput ==
  [][ /\ \A c \in pending' \ pending :
           (c.target = "current" /\ ZeroInput(currentEntry', account'))
             => c.profitLoss = 0
      /\ \A c \in pending : (calculateAmounts(c) /\ c.profitLoss = 0) =>
           LET agentFlat  == IF db.agent.exists
                             THEN 100 * Val(db.agent.flatCommission) ELSE 0
               brokerFlat == IF c.broker # Null
                                /\ c.broker.commissionType \in {"flat", "both"}
                             THEN 100 * Val(c.broker.flatCommission) ELSE 0
           IN  /\ currentEntry'.profitLoss = 0
               /\ currentEntry'.clickerAmount = 0
               /\ currentEntry'.taxableAmount = 0
               /\ currentEntry'.referralAmount = 0
               /\ currentEntry'.accHolderAmount = agentFlat
               /\ currentEntry'.brokerAmount = brokerFlat
               /\ currentEntry'.companyAmount = 0 - (agentFlat + brokerFlat) ]_vars

C10_Witness ==
  /\ pending = {}
  /\ account # Null /\ ZeroInput(currentEntry, account)
  /\ currentEntry.startingBalance = Some(1500)
  /\ currentEntry.profitLoss = 0
  /\ currentEntry.clickerAmount = 0
  /\ currentEntry.accHolderAmount = 2000
  /\ currentEntry.brokerAmount = 2500
  /\ currentEntry.companyAmount = 0 - 4500

----------------------------------------------------------------------------
(* The admin's edits of the documents a computation reads *)

\* The highest rate updateTaxRate accepts.
MaxTaxRate == 100

\* updateTaxRate as it would be if the new rate were applied to the saved
\* entries as well.
updateTaxRateRetroactive(rate) ==
  /\ rate # 0
  /\ rate >= 0 /\ rate <= MaxTaxRate
  /\ db.taxRate # Some(rate)
  /\ LET Reapplied(e) ==
           [ e EXCEPT !.taxableAmount = TaxAmount(e.profitLoss, rate),
                      !.companyAmount = e.companyAmount + e.taxableAmount
                                          - TaxAmount(e.profitLoss, rate) ]
     IN  db' = [db EXCEPT
                  !.taxRate = Some(rate),
                  !.entries = [i \in 1..Len(db.entries) |-> Reapplied(db.entries[i])]]
  /\ UNCHANGED <<userData, account, broker, entries, currentEntry, editingEntry,
                 taxRate, loading, fetches, pending, accounts, remembered, inactivePlayers>>

\* Dashboard.updateTaxRate: a rate that is 0, not a number or outside 0..100
\* is dropped; otherwise settings/taxRate is written, and nothing else is.
updateTaxRate(rate) ==
  /\ rate # 0
  /\ rate >= 0 /\ rate <= MaxTaxRate
  /\ db.taxRate # Some(rate)
  /\ db' = [db EXCEPT !.taxRate = Some(rate)]
  /\ UNCHANGED <<userData, account, broker, entries, currentEntry, editingEntry,
                 taxRate, loading, fetches, pending, accounts, remembered, inactivePlayers>>

\* Agents.handleEditAgent: the agent document gets the form's commission
\* percentage and Number(flatCommission) || 0.
handleEditAgent(pct, flat) ==
  /\ db.agent.exists
  /\ db.agent # AgentDoc(pct, Some(OrZero(flat)))
  /\ db' = [db EXCEPT !.agent = AgentDoc(pct, Some(OrZero(flat)))]
  /\ UNCHANGED <<userData, account, broker, entries, currentEntry, editingEntry,
                 taxRate, loading, fetches, pending, accounts, remembered, inactivePlayers>>

----------------------------------------------------------------------------
(* Saving and deleting entries *)

\* Entries the session may add to the store.
MaxSaved == 1

\* The document handleSubmit and handleEditEntry write: the balances with
\* `|| 0`.
EntryToSave(entry) ==
  [ entry EXCEPT !.startingBalance = Some(OrZero(entry.startingBalance)),
                 !.endingBalance = Some(OrZero(entry.endingBalance)),
                 !.refillAmount = Some(OrZero(entry.refillAmount)),
                 !.withdrawal = Some(OrZero(entry.withdrawal)) ]

\* The stored entries with the document of `doc`'s id replaced by `doc`.
Updated(es, doc) ==
  [ i \in 1..Len(es) |-> IF es[i].id = doc.id THEN doc ELSE es[i] ]

\* The stored entries without the document of id `entryId`.
Deleted(es, entryId) ==
  SelectSeq(es, LAMBDA e : e.id # entryId)

HasEntry(es, entryId) == \E i \in 1..Len(es) : es[i].id = entryId

\* The status toggle of the entry form: handleInputChange('accountStatus', ...).
\* accountStatus is no dependency of the effect.
toggleAccountStatus ==
  /\ ~loading /\ account # Null
  /\ currentEntry' =
       [ currentEntry EXCEPT !.accountStatus =
           IF currentEntry.accountStatus = "active" THEN "inactive" ELSE "active" ]
  /\ UNCHANGED <<db, userData, account, broker, entries, editingEntry,
                 taxRate, loading, fetches, pending>>
  /\ UNCHANGED outside

\* The account status handleSubmit would leave if it wrote 'active' for a
\* first entry and never the entry's accountStatus.
SubmittedStatusFirstOnly(entry, acct, stored) ==
  IF entry.id = None /\ acct.status = "unused" THEN "active" ELSE stored

\* The account status handleSubmit leaves in the store: 'active' for the
\* first entry of an account the screen holds as 'unused', then the entry's
\* accountStatus when it differs from the status the screen holds.
SubmittedStatus(entry, acct, stored) ==
  LET first == IF entry.id = None /\ acct.status = "unused"
               THEN "active" ELSE stored
  IN  IF entry.accountStatus # acct.status THEN entry.accountStatus ELSE first

\* handleSubmit: the current entry is added (no id) or updated (id), the
\* account status is written as above, and fetchAccountData is started.
\* Updating an entry the store no longer holds throws: nothing is written.
handleSubmit ==
  /\ ~loading /\ account # Null
  /\ Cardinality(pending) < MaxPending
  /\ IF currentEntry.id = None
     THEN /\ db.nextId <= 1 + MaxSaved
          /\ db' = [ db EXCEPT
                       !.entries = Append(@, [EntryToSave(currentEntry)
                                                EXCEPT !.id = Some(db.nextId)]),
                       !.nextId = @ + 1,
                       !.account.status =
                          SubmittedStatus(currentEntry, account, @) ]
     ELSE /\ HasEntry(db.entries, currentEntry.id)
          /\ db' = [ db EXCEPT
                       !.entries = Updated(@, EntryToSave(currentEntry)),
                       !.account.status =
                          SubmittedStatus(currentEntry, account, @) ]
  /\ fetches' = fetches \cup {"fetchAccountData"}
  /\ UNCHANGED <<userData, account, broker, entries, currentEntry, editingEntry,
                 taxRate, loading, pending>>
  /\ UNCHANGED outside

\* handleEditEntry: the edited entry is written, the edit form is closed and
\* fetchAccountData is started.
handleEditEntry ==
  /\ editingEntry # Null
  /\ HasEntry(db.entries, editingEntry.id)
  /\ db' = [db EXCEPT !.entries = Updated(@, EntryToSave(editingEntry))]
  /\ editingEntry' = Null
  /\ fetches' = fetches \cup {"fetchAccountData"}
  /\ UNCHANGED <<userData, account, broker, entries, currentEntry,
                 taxRate, loading, pending>>
  /\ UNCHANGED outside

\* The account status handleDeleteEntry leaves in the store, `left` being
\* the entries of this player that remain.
DeletedStatus(left, acct, stored) ==
  IF Len(left) = 0 /\ acct.status # "inactive" THEN "unused" ELSE stored

\* handleDeleteEntry on a listed entry: the document is deleted, the account
\* is set 'unused' when the query finds no entry left, and fetchAccountData
\* is started.
handleDeleteEntry(i) ==
  /\ ~loading /\ account # Null
  /\ Cardinality(pending) < MaxPending
  /\ i \in 1..Len(entries)
  /\ LET left == Deleted(db.entries, entries[i].id) IN
     db' = [ db EXCEPT !.entries = left,
                       !.account.status = DeletedStatus(left, account, @) ]
  /\ fetches' = fetches \cup {"fetchAccountData"}
  /\ UNCHANGED <<userData, account, broker, entries, currentEntry, editingEntry,
                 taxRate, loading, pending>>
  /\ UNCHANGED outside

----------------------------------------------------------------------------
(* Two computations of one session compared *)

\* What the user types while computations are compared.
ObservedFieldValues ==
  [ startingBalance |-> {},
    endingBalance   |-> {None, Some(1500)},
    refillAmount    |-> {},
    withdrawal      |-> {} ]

\* The commission an admin gives the agent meanwhile.
AgentEdits == { <<Some(15), None>> }

\* The rates an admin stores meanwhile.
TaxRateEdits == { 0, 30 }

\* What a computation read and what it wrote; again: a later computation
\* has read the same.
Observation(c, agentData, entry) ==
  [ inputs |-> [ profitLoss |-> c.profitLoss,
                 promoAmount |-> c.account.promoAmount,
                 referralPercentage |-> c.account.referralPercentage,
                 agentId |-> c.account.agentId,
                 brokerId |-> c.account.brokerId,
                 percentage |-> userData.percentage,
                 broker |-> c.broker,
                 taxRate |-> c.taxRate,
                 agent |-> agentData ],
    outputs |-> << entry.profitLoss, entry.clickerAmount, entry.accHolderAmount,
                   entry.brokerAmount, entry.taxableAmount, entry.referralAmount,
                   entry.companyAmount >>,
    again |-> FALSE ]

\* calculateAmounts ends as in calculateAmounts(c).  One computation is picked
\* and remembered; the later ones are compared with it.
calculateAmountsObserved(c) ==
  /\ c \in pending /\ c.target = "current"
  /\ pending' = pending \ {c}
  /\ currentEntry' = Settled(currentEntry, c, db.agent)
  /\ IF remembered = Null
     THEN remembered' \in {Null, Observation(c, db.agent, currentEntry')}
     ELSE remembered' =
            IF Observation(c, db.agent, currentEntry').inputs = remembered.inputs
            THEN [remembered EXCEPT !.again = TRUE]
            ELSE remembered
  /\ UNCHANGED <<db, userData, account, broker, entries, editingEntry,
                 taxRate, loading, fetches, accounts, inactivePlayers>>

InitObserved ==
  /\ db = Store(BaseConfig)
  /\ userData = Player(BaseConfig)
  /\ account = Null
  /\ broker = Null
  /\ entries = <<>>
  /\ currentEntry = InitialEntry
  /\ editingEntry = Null
  /\ taxRate = DefaultTaxRate
  /\ loading = TRUE
  /\ fetches = {"fetchAccountData", "fetchTaxRate"}
  /\ pending = {}
  /\ accounts = Null
  /\ remembered = Null
  /\ inactivePlayers = {}

NextObserved ==
  \/ fetchTaxRate
  \/ fetchAccountData
  \/ \E field \in RawFields : \E value \in ObservedFieldValues[field] :
       handleInputChange(field, value)
  \/ \E c \in pending : calculateAmountsObserved(c)
  \/ \E rate \in TaxRateEdits : updateTaxRate(rate)
  \/ \E edit \in AgentEdits : handleEditAgent(edit[1], edit[2])

\* One session from its mount, the admin editing the tax rate and the agent.
SpecObserved == InitObserved /\ [][NextObserved]_vars

\* The inputs C11 names: the balances and the promo amount by the profitLoss
\* they give, the account, the player's percentage, the broker, the tax rate.
SameNamedInputs(c) ==
  /\ remembered # Null
  /\ \A f \in DOMAIN remembered.inputs \ {"agent"} :
       remembered.inputs[f] = Observation(c, db.agent, currentEntry).inputs[f]

Outputs(entry) ==
  << entry.profitLoss, entry.clickerAmount, entry.accHolderAmount,
     entry.brokerAmount, entry.taxableAmount, entry.referralAmount,
     entry.companyAmount >>

\* C11 as stated: a computation that ends with the same balances, account
\* (promoAmount, referralPercentage, agentId, brokerId), player percentage,
\* broker and tax rate as an earlier one writes the same profitLoss and amounts.
C11_SameNamedInputs ==
  [][ \A c \in pending :
        (calculateAmountsObserved(c) /\ SameNamedInputs(c))
          => Outputs(currentEntry') = remembered.outputs ]_vars

\* C11: a computation that ends with the same balances, account, player
\* percentage, broker and tax rate as an earlier one, and that reads the same
\* commission document of the agent, writes the same profitLoss and amounts,
\* whatever ran between the two.
C11_Determinism ==
  [][ \A c \in pending :
        (calculateAmountsObserved(c) /\ SameNamedInputs(c)
           /\ remembered.inputs.agent = db.agent)
          => Outputs(currentEntry') = remembered.outputs ]_vars

\* A second computation with the inputs of a remembered one has ended after
\* the tax rate of the screen changed in between.
C11_Witness ==
  /\ remembered # Null
  /\ remembered.again
  /\ remembered.inputs.taxRate = 10 /\ taxRate = 20
  /\ remembered.inputs.profitLoss = 1200
  /\ remembered.inputs.agent = db.agent
  /\ pending = {}
  /\ Outputs(currentEntry) = remembered.outputs
  /\ currentEntry.taxableAmount = 12000

\* The amounts of a computation with every absent input counted as 0, the
\* tax rate `rate` included.
ExpectedOutputs(c, rate) ==
  LET clicker  == c.profitLoss * Val(userData.percentage)
      holder   == IF db.agent.exists
                  THEN c.profitLoss * Val(db.agent.commissionPercentage)
                         + 100 * Val(db.agent.flatCommission)
                  ELSE 0
      brokered == ExpectedBrokerAmount(c)
      tax      == c.profitLoss * rate
      referral == c.profitLoss * Val(c.account.referralPercentage)
  IN  << c.profitLoss, clicker, holder, brokered, tax, referral,
         100 * c.profitLoss - clicker - holder - brokered - tax - referral >>

\* C12: a computation that ends writes numbers, each absent input counted as
\* 0: an absent balance, promo amount, player percentage, agent or broker
\* field or referral percentage, and a tax rate that is absent from the
\* settings.
C12_AbsentAsZero ==
  [][ /\ \A c \in pending' \ pending :
           c.target = "current"
             => c.profitLoss = RawProfitLoss(currentEntry', account')
      /\ \A c \in pending : calculateAmounts(c) =>
           /\ Outputs(currentEntry')
                = ExpectedOutputs(c, IF db.taxRate = <<>> THEN 0 ELSE c.taxRate)
           /\ \A i \in 1..7 : Outputs(currentEntry')[i] \in Int ]_vars

----------------------------------------------------------------------------
(* One session with both forms, and the admin's tax rate *)

\* What the user types into the two forms of this session.
SessionFieldValues ==
  [ startingBalance |-> {},
    endingBalance   |-> {Some(1500)},
    refillAmount    |-> {},
    withdrawal      |-> {} ]

SessionEditFieldValues ==
  [ startingBalance |-> {},
    endingBalance   |-> {},
    refillAmount    |-> {Some(50)},
    withdrawal      |-> {} ]

\* The sessions explored with both forms: accounts with a saved entry.
SessionConfigs == { c \in Near(BaseConfig) : c.setup[3] # <<>> }

InitSession ==
  /\ \E c \in SessionConfigs :
       /\ db = Store(c)
       /\ userData = Player(c)
  /\ account = Null
  /\ broker = Null
  /\ entries = <<>>
  /\ currentEntry = InitialEntry
  /\ editingEntry = Null
  /\ taxRate = DefaultTaxRate
  /\ loading = TRUE
  /\ fetches = {"fetchAccountData", "fetchTaxRate"}
  /\ pending = {}
  /\ accounts = Null
  /\ remembered = Null
  /\ inactivePlayers = {}

NextSession ==
  \/ fetchTaxRate
  \/ fetchAccountData
  \/ \E field \in RawFields : \E value \in SessionFieldValues[field] :
       handleInputChange(field, value)
  \/ \E c \in pending : calculateAmounts(c)
  \/ \E i \in 1..Len(entries) : startEditing(i)
  \/ cancelEditing
  \/ \E field \in RawFields : \E value \in SessionEditFieldValues[field] :
       handleEditInputChange(field, value)
  \/ \E c \in pending : calculateEditingAmounts(c)
  \/ \E rate \in TaxRateEdits : updateTaxRate(rate)

\* One session from its mount: the loads, the two forms, and an admin who
\* stores another tax rate.
SpecSession == InitSession /\ [][NextSession]_vars

\* The raw fields of an entry the effects depend on (nothing for no entry).
Deps(entry) ==
  IF entry = Null THEN <<>>
  ELSE << entry.startingBalance, entry.endingBalance,
          entry.withdrawal, entry.refillAmount >>

\* A computation for `target` that has captured the state after the step.
Reinvoked(target, entry) ==
  \E c \in pending' :
    /\ c.target = target
    /\ c.profitLoss = RawProfitLoss(entry, account')
    /\ c.account = account' /\ c.broker = broker' /\ c.taxRate = taxRate'

\* C13: every step of the screen that changes a balance of the entry at hand
\* (startingBalance, endingBalance, refillAmount, withdrawal), the account
\* (its promoAmount, agent and broker), the broker or the tax rate starts a
\* settlement computation on the changed values, for the entry form and for
\* the edit form; and a computation that ends writes the profitLoss and the
\* amounts of the values it was started on.
C13_RecomputeTriggers ==
  [][ /\ ( account' # Null
           /\ ( Deps(currentEntry') # Deps(currentEntry) \/ account' # account
                \/ broker' # broker \/ taxRate' # taxRate ) )
         => Reinvoked("current", currentEntry')
      /\ ( account' # Null /\ editingEntry' # Null
           /\ ( Deps(editingEntry') # Deps(editingEntry) \/ account' # account
                \/ broker' # broker \/ taxRate' # taxRate ) )
         => Reinvoked("editing", editingEntry')
      /\ \A c \in pending :
           /\ calculateAmounts(c)
                => Outputs(currentEntry') = ExpectedOutputs(c, c.taxRate)
           /\ (calculateEditingAmounts(c) /\ editingEntry' # Null)
                => Outputs(editingEntry') = ExpectedOutputs(c, c.taxRate) ]_vars

\* Both forms hold the amounts of the tax rate that arrived after they were
\* filled in.
C13_Witness ==
  /\ pending = {} /\ fetches = {}
  /\ taxRate = 20
  /\ account # Null /\ account.promoAmount = Some(150)
  /\ currentEntry.endingBalance = Some(1500)
  /\ currentEntry.profitLoss = 1500 - (300 + 150)
  /\ currentEntry.taxableAmount = 20 * (1500 - (300 + 150))
  /\ editingEntry # Null
  /\ editingEntry.refillAmount = Some(50)
  /\ editingEntry.profitLoss = 300 - (100 + 150) + 100 - 50
  /\ editingEntry.taxableAmount = 20 * (300 - (100 + 150) + 100 - 50)

\* C14: every settlement computation that starts uses the tax rate the
\* settings hold at that moment: none uses the rate of before an admin's
\* updateTaxRate, or the built-in 10, in a session that is open.  Stated
\* for the sessions whose loads have returned, where the rate the screen
\* holds no longer changes by itself.
C14_NoStaleTaxRate ==
  [][ (fetches = {} /\ db'.taxRate # <<>>) =>
        \A c \in pending' \ pending : c.taxRate = db'.taxRate[1] ]_vars

\* C15: changing the tax rate is not retroactive: a step that stores another
\* rate (updateTaxRate is the only one) leaves every saved entry as it was,
\* its taxableAmount and companyAmount included.
C15_NotRetroactive ==
  [][ db'.taxRate # db.taxRate =>
        /\ db'.entries = db.entries
        /\ db'.others = db.others ]_vars

\* A rate of 30 is stored, and the saved entry still carries the amounts of
\* the day it was settled at rate 0.
C15_Witness ==
  /\ db.taxRate = Some(30)
  /\ Len(db.entries) = 1
  /\ db.entries[1].profitLoss = 300
  /\ db.entries[1].taxableAmount = 0
  /\ db.entries[1].companyAmount = 30000

----------------------------------------------------------------------------
(* The status of an account: the player's screen and the admin's screens *)

\* The statuses of the select of the admin's edit form.
Statuses == {"active", "inactive", "unused"}

\* Entries of the account written by other players.
MaxOthers == 1

\* The status Accounts.fetchAccounts derives, `count` being the entries of
\* the account whoever wrote them.
AccountsStatus(accountData, count) ==
  LET stored == IF accountData.status = "" THEN "unused" ELSE accountData.status IN
  IF accountData.assignedToPlayerUid # "" THEN "active"
  ELSE IF count = 0 THEN "unused" ELSE stored

\* The Accounts screen is opened: its list starts empty and the mount effect
\* calls fetchAccounts.
mountAccounts ==
  /\ "fetchAccounts" \notin fetches
  /\ accounts' = Null
  /\ fetches' = fetches \cup {"fetchAccounts"}
  /\ UNCHANGED <<db, userData, account, broker, entries, currentEntry,
                 editingEntry, taxRate, loading, pending, remembered, inactivePlayers>>

\* fetchAccounts returns: the list holds the account, its document spread
\* under its derived status, and the store is written 'active' for an
\* assigned account stored otherwise.  Without a document the list is empty.
fetchAccounts ==
  /\ "fetchAccounts" \in fetches
  /\ fetches' = fetches \ {"fetchAccounts"}
  /\ accounts' =
       IF db.account.exists
       THEN [ db.account EXCEPT
                !.status = AccountsStatus(db.account, Len(db.entries) + db.others) ]
       ELSE Null
  /\ db' = IF db.account.exists
           THEN IF db.account.assignedToPlayerUid # "" /\ db.account.status # "active"
                THEN [db EXCEPT !.account.status = "active"]
                ELSE db
           ELSE db
  /\ UNCHANGED <<userData, account, broker, entries, currentEntry,
                 editingEntry, taxRate, loading, pending, remembered, inactivePlayers>>

\* Accounts.handleEditAccount with `status` in the select (the listed status
\* when the admin leaves it alone): the account is written with it and
\* fetchAccounts is called.  Taken for accounts listed with a referral
\* percentage; without one the update carries an undefined field.
handleEditAccount(status) ==
  /\ accounts # Null
  /\ Truthy(accounts.referralPercentage)
  /\ db' = [db EXCEPT !.account.status = status,
                      !.account.referralPercentage = accounts.referralPercentage]
  /\ fetches' = fetches \cup {"fetchAccounts"}
  /\ UNCHANGED <<userData, account, broker, entries, currentEntry,
                 editingEntry, taxRate, loading, pending, accounts, remembered, inactivePlayers>>

\* Assignments.handleAssignAccount on an unassigned account: the player is
\* written, and nothing else of the account.
handleAssignAccount(selectedPlayer) ==
  /\ db.account.assignedToPlayerUid = ""
  /\ selectedPlayer # ""
  /\ db' = [db EXCEPT !.account.assignedToPlayerUid = selectedPlayer]
  /\ UNCHANGED <<userData, account, broker, entries, currentEntry,
                 editingEntry, taxRate, loading, fetches, pending, accounts,
                 remembered, inactivePlayers>>

\* Assignments.handleUnassignAccount on an assigned account.
handleUnassignAccount ==
  /\ db.account.assignedToPlayerUid # ""
  /\ db' = [db EXCEPT !.account.assignedToPlayerUid = ""]
  /\ UNCHANGED <<userData, account, broker, entries, currentEntry,
                 editingEntry, taxRate, loading, fetches, pending, accounts,
                 remembered, inactivePlayers>>

\* The accounts a session may find: any stored status, assigned to the
\* player or to nobody, with or without a saved entry of the player and
\* entries of other players.  The session is taken when fetchTaxRate has
\* returned and fetchAccountData has not.
InitStatus ==
  /\ \E status \in Statuses, assigned \in {"", "u1"}, others \in 0..MaxOthers,
        saved \in {<<>>, <<StoredEntry>>} :
       db = [ Store(BaseConfig) EXCEPT !.account.status = status,
                                       !.account.assignedToPlayerUid = assigned,
                                       !.others = others,
                                       !.entries = saved ]
  /\ userData = Player(BaseConfig)
  /\ account = Null
  /\ broker = Null
  /\ entries = <<>>
  /\ currentEntry = InitialEntry
  /\ editingEntry = Null
  /\ taxRate = BaseConfig.taxRate[1]
  /\ loading = TRUE
  /\ fetches = {"fetchAccountData"}
  /\ pending = {}
  /\ accounts = Null
  /\ remembered = Null
  /\ inactivePlayers = {}

NextStatus ==
  \/ fetchAccountData
  \/ \E c \in pending : calculateAmounts(c)
  \/ toggleAccountStatus
  \/ handleSubmit
  \/ \E i \in 1..Len(entries) : handleDeleteEntry(i)
  \/ mountAccounts
  \/ fetchAccounts
  \/ \E status \in Statuses : handleEditAccount(status)
  \/ handleAssignAccount("u1")
  \/ handleUnassignAccount

\* One session of the player on the entry screen, while an admin opens the
\* Accounts screen, edits the account's status and assigns or unassigns it.
SpecStatus == InitStatus /\ [][NextStatus]_vars

\* A load of name f returns in this step.
Returns(f) == f \in fetches /\ f \notin fetches'

\* The entries of the account in store d, whoever wrote them.
AllEntries(d) == Len(d.entries) + d.others

\* C16: for an account not stored 'inactive', the status fetchAccountData and
\* fetchAccounts derive is 'unused' when the account has no entry of any
\* player and 'active' when it has at least one.
C16_EntryCountRule ==
  [][ db.account.status # "inactive" =>
        LET rule == IF AllEntries(db) = 0 THEN "unused" ELSE "active" IN
        /\ Returns("fetchAccountData") => account'.status = rule
        /\ Returns("fetchAccounts") => accounts'.status = rule ]_vars

\* A step in which a user sets the status of the account: the admin's edit
\* form, or the entry form saved with its status toggle.
SetsStatus ==
  \/ \E status \in Statuses : handleEditAccount(status)
  \/ handleSubmit

\* C17: an account stored 'inactive' stays stored 'inactive', and is derived
\* 'inactive' by fetchAccountData and fetchAccounts, across every step in
\* which no user sets its status.
C17_InactivePersists ==
  [][ (db.account.status = "inactive" /\ ~SetsStatus) =>
        /\ db'.account.status = "inactive"
        /\ Returns("fetchAccountData") => account'.status = "inactive"
        /\ Returns("fetchAccounts") => accounts'.status = "inactive" ]_vars

\* C18: handleAssignAccount leaves the account stored 'active', and an
\* assigned account is derived 'active' by fetchAccountData and
\* fetchAccounts, whatever the number of its entries.
C18_AssignedIsActive ==
  [][ /\ (db.account.assignedToPlayerUid = "" /\ db'.account.assignedToPlayerUid # "")
         => db'.account.status = "active"
      /\ db.account.assignedToPlayerUid # "" =>
           /\ Returns("fetchAccountData") => account'.status = "active"
           /\ Returns("fetchAccounts") => accounts'.status = "active" ]_vars

\* C19: when handleDeleteEntry deletes an entry, the stored status becomes
\* 'unused' if no entry of the account remains and the account was not
\* stored 'inactive'; otherwise it stays what it was.
C19_DeleteRevertsToUnused ==
  [][ Len(db'.entries) < Len(db.entries) =>
        db'.account.status =
          IF AllEntries(db') = 0 /\ db.account.status # "inactive"
          THEN "unused" ELSE db.account.status ]_vars

----------------------------------------------------------------------------
(* The entry form saved, while an admin edits the status of the account *)

\* The accounts of the player, with any stored status, with or without a
\* saved entry.  The session is taken when fetchTaxRate has returned and
\* fetchAccountData has not.
InitSubmit ==
  /\ \E status \in Statuses, saved \in {<<>>, <<StoredEntry>>} :
       db = [ Store(BaseConfig) EXCEPT !.account.status = status,
                                       !.entries = saved ]
  /\ userData = Player(BaseConfig)
  /\ account = Null
  /\ broker = Null
  /\ entries = <<>>
  /\ currentEntry = InitialEntry
  /\ editingEntry = Null
  /\ taxRate = BaseConfig.taxRate[1]
  /\ loading = TRUE
  /\ fetches = {"fetchAccountData"}
  /\ pending = {}
  /\ accounts = Null
  /\ remembered = Null
  /\ inactivePlayers = {}

NextSubmit ==
  \/ fetchAccountData
  \/ \E c \in pending : calculateAmounts(c)
  \/ toggleAccountStatus
  \/ handleSubmit
  \/ \E i \in 1..Len(entries) : handleDeleteEntry(i)
  \/ mountAccounts
  \/ fetchAccounts
  \/ \E status \in Statuses : handleEditAccount(status)

\* One session of the player who toggles the status, saves and deletes,
\* while an admin opens the Accounts screen and edits the account's status.
SpecSubmit == InitSubmit /\ [][NextSubmit]_vars

----------------------------------------------------------------------------
(* The admin's tax rate form, each request noted *)

\* The rates the form can hold when Save is clicked: handleTaxRateChange
\* keeps digits of 0..100 only, and an emptied field is Number('') = 0.
TaxRateRequests == {0, 1, 30, 100}

\* updateTaxRate called with the form at `rate`, the call noted in
\* `remembered`: a rate that is falsy or outside 0..100 returns before the
\* write; otherwise settings/taxRate is written.
updateTaxRateObserved(rate) ==
  /\ remembered' = [request |-> rate, stored |-> db.taxRate]
  /\ remembered' # remembered
  /\ db' = IF rate # 0 /\ rate >= 0 /\ rate <= MaxTaxRate
           THEN [db EXCEPT !.taxRate = Some(rate)]
           ELSE db
  /\ UNCHANGED <<userData, account, broker, entries, currentEntry, editingEntry,
                 taxRate, loading, fetches, pending, accounts, inactivePlayers>>

InitTaxRate ==
  /\ \E c \in SessionConfigs :
       /\ db = Store(c)
       /\ userData = Player(c)
  /\ account = Null
  /\ broker = Null
  /\ entries = <<>>
  /\ currentEntry = InitialEntry
  /\ editingEntry = Null
  /\ taxRate = DefaultTaxRate
  /\ loading = TRUE
  /\ fetches = {"fetchAccountData", "fetchTaxRate"}
  /\ pending = {}
  /\ accounts = Null
  /\ remembered = Null
  /\ inactivePlayers = {}

NextTaxRate ==
  \/ fetchTaxRate
  \/ fetchAccountData
  \/ \E c \in pending : calculateAmounts(c)
  \/ \E rate \in TaxRateRequests : updateTaxRateObserved(rate)

\* A player's session from its mount, and an admin who saves the tax rate
\* form again and again.
SpecTaxRate == InitTaxRate /\ [][NextTaxRate]_vars

\* C26: a call of updateTaxRate with rate r stores r when 0 <= r <= 100,
\* both bounds included, and leaves the stored rate as it was otherwise.
C26_StoresIffInRange ==
  [][ remembered' # remembered =>
        LET r == remembered'.request IN
        IF 0 <= r /\ r <= MaxTaxRate
        THEN db'.taxRate = Some(r)
        ELSE db'.taxRate = db.taxRate ]_vars

\* The outputs a computation started now on `entry` would end with.
Recomputed(entry) ==
  Outputs(Settled(entry, Closure("current", entry, account, broker, taxRate),
                  db.agent))

\* C28: once every load and every pending computation has completed, in
\* whatever order the agent lookups returned, the profitLoss and the derived
\* amounts of the current entry are those of its latest raw inputs.
C28_LatestInputsWin ==
  (account # Null /\ fetches = {} /\ pending = {}) =>
     Outputs(currentEntry) = Recomputed(currentEntry)

----------------------------------------------------------------------------
(* Entries saved from the entry form and from the inline edit form *)

\* The dates the date inputs of the two forms are set to.
Dates == {Yesterday, Today}

\* handleInputChange('date', value): the date is no dependency of the
\* effect, so no computation starts.
handleDateChange(value) ==
  /\ ~loading /\ account # Null
  /\ currentEntry.date # value
  /\ currentEntry' = [currentEntry EXCEPT !.date = value]
  /\ UNCHANGED <<db, userData, account, broker, entries, editingEntry,
                 taxRate, loading, fetches, pending>>
  /\ UNCHANGED outside

\* handleEditInputChange('date', value) on the inline edit form.
handleEditDateChange(value) ==
  /\ editingEntry # Null
  /\ editingEntry.date # value
  /\ editingEntry' = [editingEntry EXCEPT !.date = value]
  /\ UNCHANGED <<db, userData, account, broker, entries, currentEntry,
                 taxRate, loading, fetches, pending>>
  /\ UNCHANGED outside

\* The loaded screen of the account with every party and one saved entry.
InitSaving ==
  /\ db = Store(BaseConfig)
  /\ userData = Player(BaseConfig)
  /\ account = FetchedAccount(db.account, db.entries)
  /\ broker = FetchedBroker(db.account, Null)
  /\ entries = db.entries
  /\ taxRate = FetchedTaxRate(DefaultTaxRate)
  /\ LET entry == FetchedEntry(db.account, db.entries, InitialEntry) IN
     currentEntry = Settled(entry,
                            Closure("current", entry, account, broker, taxRate),
                            db.agent)
  /\ editingEntry = Null
  /\ loading = FALSE
  /\ fetches = {}
  /\ pending = {}
  /\ accounts = Null
  /\ remembered = Null
  /\ inactivePlayers = {}

NextSaving ==
  \/ fetchAccountData
  \/ \E field \in RawFields : \E value \in SessionFieldValues[field] :
       handleInputChange(field, value)
  \/ \E value \in Dates : handleDateChange(value)
  \/ \E c \in pending : calculateAmounts(c)
  \/ handleSubmit

\* The entry form of a loaded screen typed into, dated and saved.
SpecSaving == InitSaving /\ [][NextSaving]_vars

NextEditSaving ==
  \/ fetchAccountData
  \/ \E c \in pending : calculateAmounts(c)
  \/ \E i \in 1..Len(entries) : startEditing(i)
  \/ cancelEditing
  \/ \E field \in RawFields : \E value \in SessionEditFieldValues[field] :
       handleEditInputChange(field, value)
  \/ \E value \in Dates : handleEditDateChange(value)
  \/ \E c \in pending : calculateEditingAmounts(c)
  \/ handleEditEntry

\* The inline edit form of a loaded screen typed into, dated and saved.
SpecEditSaving == InitSaving /\ [][NextEditSaving]_vars

\* C22: the entry store holds at most one entry of the account per date,
\* whatever was submitted and edited.
C22_OneEntryPerDate ==
  \A i, j \in 1..Len(db.entries) :
     i # j => db.entries[i].date # db.entries[j].date

\* C29: every entry a save writes is consistent in itself: its profitLoss
\* and derived amounts are those of the settlement computation on the raw
\* balances of the same entry, also when a computation is still pending.
C29_PersistedConsistent ==
  [][ \A i \in 1..Len(db'.entries) :
        (IF i > Len(db.entries) THEN TRUE ELSE db'.entries[i] # db.entries[i])
          => Outputs(db'.entries[i]) = Recomputed(db'.entries[i]) ]_vars

----------------------------------------------------------------------------
(* The player's dashboard: entries edited in its list *)

\* What the player types into the number inputs of the dashboard's edit
\* form, as the inputs give it: parseFloat(value) || 0.
DashboardFieldValues ==
  [ startingBalance |-> {0},
    endingBalance   |-> {1500},
    refillAmount    |-> {50},
    withdrawal      |-> {} ]

\* fetchPlayerData returns: the entries of the player are listed when an
\* account is assigned to the player.
fetchPlayerData ==
  /\ "fetchPlayerData" \in fetches
  /\ fetches' = fetches \ {"fetchPlayerData"}
  /\ entries' = IF db.account.assignedToPlayerUid = userData.uid
                THEN db.entries ELSE entries
  /\ loading' = FALSE
  /\ UNCHANGED <<db, userData, account, broker, currentEntry, editingEntry,
                 taxRate, pending>>
  /\ UNCHANGED outside

\* The edit button of a listed entry on the dashboard: setEditingEntry(entry).
PlayerDashboard_startEditing(i) ==
  /\ ~loading
  /\ i \in 1..Len(entries)
  /\ IF editingEntry = Null THEN TRUE ELSE editingEntry.id # entries[i].id
  /\ editingEntry' = entries[i]
  /\ UNCHANGED <<db, userData, account, broker, entries, currentEntry,
                 taxRate, loading, fetches, pending>>
  /\ UNCHANGED outside

\* PlayerDashboard.handleEditInputChange on a number input: the field is
\* set, and nothing is computed.
PlayerDashboard_handleEditInputChange(field, value) ==
  /\ editingEntry # Null
  /\ editingEntry[field] # Some(value)
  /\ editingEntry' = [editingEntry EXCEPT ![field] = Some(value)]
  /\ UNCHANGED <<db, userData, account, broker, entries, currentEntry,
                 taxRate, loading, fetches, pending>>
  /\ UNCHANGED outside

\* The document PlayerDashboard.handleEditEntry writes: the edited entry
\* with profitLoss computed from its four balances.
DashboardEntryToSave(entry) ==
  [ entry EXCEPT !.profitLoss =
      OrZero(entry.endingBalance) - OrZero(entry.startingBalance)
        + OrZero(entry.withdrawal) - OrZero(entry.refillAmount) ]

\* PlayerDashboard.handleEditEntry: the document is written, the form is
\* closed and fetchPlayerData is started.
PlayerDashboard_handleEditEntry ==
  /\ editingEntry # Null
  /\ HasEntry(db.entries, editingEntry.id)
  /\ db' = [db EXCEPT !.entries = Updated(@, DashboardEntryToSave(editingEntry))]
  /\ editingEntry' = Null
  /\ fetches' = fetches \cup {"fetchPlayerData"}
  /\ UNCHANGED <<userData, account, broker, entries, currentEntry,
                 taxRate, loading, pending>>
  /\ UNCHANGED outside

\* The dashboard of a player with a saved entry, as it mounts.
InitDashboard ==
  /\ \E c \in SessionConfigs :
       /\ db = Store(c)
       /\ userData = Player(c)
  /\ account = Null
  /\ broker = Null
  /\ entries = <<>>
  /\ currentEntry = InitialEntry
  /\ editingEntry = Null
  /\ taxRate = DefaultTaxRate
  /\ loading = TRUE
  /\ fetches = {"fetchPlayerData"}
  /\ pending = {}
  /\ accounts = Null
  /\ remembered = Null
  /\ inactivePlayers = {}

NextDashboard ==
  \/ fetchPlayerData
  \/ \E i \in 1..Len(entries) : PlayerDashboard_startEditing(i)
  \/ cancelEditing
  \/ \E field \in RawFields : \E value \in DashboardFieldValues[field] :
       PlayerDashboard_handleEditInputChange(field, value)
  \/ PlayerDashboard_handleEditEntry

\* The player's dashboard: its list loaded, entries edited and saved.
SpecDashboard == InitDashboard /\ [][NextDashboard]_vars

\* The outputs of the settlement computation on `entry` with the account,
\* the broker, the agent and the tax rate the store holds.
StoreRecomputed(entry) ==
  LET acct == FetchedAccount(db.account, db.entries)
      brk == FetchedBroker(db.account, Null)
  IN  Outputs(Settled(entry,
                      Closure("editing", entry, acct, brk,
                              FetchedTaxRate(DefaultTaxRate)),
                      db.agent))

\* C24: when a save of an edit changes the raw balances of a stored entry,
\* the stored profitLoss and derived amounts are those recomputed from the
\* new balances.
C24_EditRecomputes ==
  [][ \A i \in 1..Len(db.entries) :
        (/\ Len(db'.entries) = Len(db.entries)
         /\ EditingDeps(db'.entries[i]) # EditingDeps(db.entries[i]))
          => Outputs(db'.entries[i]) = StoreRecomputed(db'.entries[i]) ]_vars


----------------------------------------------------------------------------
(* Store reads that fail, each failure noted *)

\* fetchTaxRate whose getDoc rejects: the catch logs, nothing is set.
fetchTaxRateFails ==
  /\ "fetchTaxRate" \in fetches
  /\ fetches' = fetches \ {"fetchTaxRate"}
  /\ remembered' = [failed |-> "fetchTaxRate"]
  /\ UNCHANGED <<db, userData, account, broker, entries, currentEntry,
                 editingEntry, taxRate, loading, pending, accounts, inactivePlayers>>

\* fetchAccountData with a read that rejects.  Every read comes before
\* setAccount, setEntries and setCurrentEntry, so none of them is reached;
\* the one setter a failing call can have reached is the setBroker of the
\* fetchBrokerData it awaits (brokerFetched: the failing read came after it).
\* A broker that was set runs both effects; finally clears loading.
fetchAccountDataFails(brokerFetched) ==
  /\ "fetchAccountData" \in fetches
  /\ fetches' = fetches \ {"fetchAccountData"}
  /\ loading' = FALSE
  /\ remembered' = [failed |-> "fetchAccountData"]
  /\ IF brokerFetched
     THEN /\ db.account.exists
          /\ db.account.brokerId # "" /\ db.broker.exists
          /\ broker' = db.broker
          /\ currentEntry' = calculateAmountsEntry(currentEntry, account)
          /\ pending' = pending
               \cup calculateAmountsPending(currentEntry, account, db.broker, taxRate)
               \cup calculateEditingAmountsPending(editingEntry, account, db.broker, taxRate)
     ELSE UNCHANGED <<broker, currentEntry, pending>>
  /\ UNCHANGED <<db, userData, account, entries, editingEntry, taxRate, accounts, inactivePlayers>>

\* A calculateAmounts whose failed lookup would still reach the setter, with
\* no agent document.
calculateAmountsFailsAfterSetter(c) ==
  /\ c \in pending /\ c.target = "current"
  /\ pending' = pending \ {c}
  /\ currentEntry' = Settled(currentEntry, c, NoDoc)
  /\ remembered' = [failed |-> "calculateAmounts"]
  /\ UNCHANGED <<db, userData, account, broker, entries, editingEntry, taxRate,
                 loading, fetches, accounts, inactivePlayers>>

\* The agent lookup of a calculateAmounts rejects: the catch logs and the
\* computation ends without its setter.
calculateAmountsFails(c) ==
  /\ c \in pending /\ c.target = "current"
  /\ pending' = pending \ {c}
  /\ remembered' = [failed |-> "calculateAmounts"]
  /\ UNCHANGED <<db, userData, account, broker, entries, currentEntry,
                 editingEntry, taxRate, loading, fetches, accounts, inactivePlayers>>

\* The sessions explored with failing reads: the stores that differ from the
\* base in the broker or in the tax rate, the documents the failing loads read.
FailingConfigs ==
  { c \in SessionConfigs :
      \A d \in DOMAIN c \ {"broker", "taxRate"} : c[d] = BaseConfig[d] }

InitFailing ==
  /\ \E c \in FailingConfigs :
       /\ db = Store(c)
       /\ userData = Player(c)
  /\ account = Null
  /\ broker = Null
  /\ entries = <<>>
  /\ currentEntry = InitialEntry
  /\ editingEntry = Null
  /\ taxRate = DefaultTaxRate
  /\ loading = TRUE
  /\ fetches = {"fetchAccountData", "fetchTaxRate"}
  /\ pending = {}
  /\ accounts = Null
  /\ remembered = Null
  /\ inactivePlayers = {}

NextFailing ==
  \/ fetchTaxRate
  \/ fetchTaxRateFails
  \/ fetchAccountData
  \/ \E brokerFetched \in BOOLEAN : fetchAccountDataFails(brokerFetched)
  \/ \E field \in RawFields : \E value \in SessionFieldValues[field] :
       handleInputChange(field, value)
  \/ \E c \in pending : calculateAmounts(c)
  \/ \E c \in pending : calculateAmountsFails(c)
  \/ handleSubmit

\* The entry screen from its mount over a store whose reads may fail.
SpecFailing == InitFailing /\ [][NextFailing]_vars

\* C25: a failing store read is recovered locally: a step in which
\* fetchTaxRate, fetchAccountData or the agent lookup of calculateAmounts
\* fails changes no field of the current entry and leaves the screen running
\* (the failed load is over, the failed computation is dropped), and a
\* failed fetchAccountData still ends with loading cleared.
C25_FailureRecovered ==
  [][ ( \/ fetchTaxRateFails
        \/ \E brokerFetched \in BOOLEAN : fetchAccountDataFails(brokerFetched)
        \/ \E c \in pending : calculateAmountsFails(c) )
        => /\ currentEntry' = currentEntry
           /\ db' = db
           /\ remembered'.failed = "fetchAccountData" => ~loading' ]_vars

\* The agent lookup of the computation for a typed balance has failed, no
\* other computation is on its way, and the entry still shows the amounts of
\* the balances before the change.
C25_Witness ==
  /\ remembered # Null
  /\ remembered.failed = "calculateAmounts"
  /\ account # Null /\ fetches = {} /\ pending = {}
  /\ Outputs(currentEntry) # Recomputed(currentEntry)


----------------------------------------------------------------------------
(* The admin's Accounts screen: adding an account and editing its kind *)

\* String.trim on the strings given to the forms.
Trim(s) == IF s = " " THEN "" ELSE s

\* The add form when it is submitted.  depositAmount is the text of a number
\* input: None when it is left empty.
NewAccountForms ==
  [ type : {"pph", "legal"}, agentId : {"", "a1"},
    username : {"", " ", "user"}, websiteURL : {"", "site"},
    password : {"", "pw"}, name : {"", " ", "name"},
    depositAmount : {None, Some(500)} ]

\* The document handleAddAccount builds: the fields of the chosen type only.
AddedAccount(newAccount) ==
  LET pph == newAccount.type = "pph" IN
  [ exists |-> TRUE, type |-> newAccount.type, agentId |-> newAccount.agentId,
    status |-> "unused", brokerId |-> "", referralPercentage |-> None,
    promoAmount |-> Some(0), assignedToPlayerUid |-> "",
    username |-> IF pph THEN Some(Trim(newAccount.username)) ELSE None,
    websiteURL |-> IF pph THEN Some(Trim(newAccount.websiteURL)) ELSE None,
    password |-> IF pph THEN Some(Trim(newAccount.password)) ELSE None,
    deal |-> IF pph THEN Some("") ELSE None,
    name |-> IF pph THEN None ELSE Some(Trim(newAccount.name)),
    sharePercentage |-> IF pph THEN None ELSE Some(0),
    depositAmount |-> IF pph THEN None ELSE Some(OrZero(newAccount.depositAmount)) ]

\* handleAddAccount with the form at `newAccount`: it returns without an
\* agent, and without username, website and password (pph) or a name
\* (legal); otherwise the document is added and fetchAccounts is called.
\* The store of the model has room for one account.
handleAddAccount(newAccount) ==
  /\ ~db.account.exists
  /\ newAccount.agentId # ""
  /\ IF newAccount.type = "pph"
     THEN newAccount.username # "" /\ newAccount.websiteURL # ""
            /\ newAccount.password # ""
     ELSE newAccount.name # ""
  /\ db' = [db EXCEPT !.account = AddedAccount(newAccount)]
  /\ fetches' = fetches \cup {"fetchAccounts"}
  /\ UNCHANGED <<userData, account, broker, entries, currentEntry,
                 editingEntry, taxRate, loading, pending, accounts, remembered, inactivePlayers>>

\* What the admin does with the fields of the type shown in the edit form.
Panes == {"untouched", "filled", "cleared"}

\* editingAccount when the edit form is submitted: the listed account with
\* the type and the account holder of the selects and the fields of the
\* shown type typed into or left alone.  The form has no password field.
EditedAccount(row, type, agentId, pane) ==
  LET chosen == [row EXCEPT !.type = type, !.agentId = agentId] IN
  IF pane = "untouched" THEN chosen
  ELSE IF type = "pph"
  THEN IF pane = "filled"
       THEN [chosen EXCEPT !.username = Some("user2"),
                           !.websiteURL = Some("site2"), !.deal = Some("d")]
       ELSE [chosen EXCEPT !.username = Some(""), !.websiteURL = Some(""),
                           !.deal = Some("")]
  ELSE IF pane = "filled"
       THEN [chosen EXCEPT !.name = Some("name2"), !.sharePercentage = Some(10),
                           !.depositAmount = Some(500)]
       ELSE [chosen EXCEPT !.name = Some(""), !.sharePercentage = Some(0),
                           !.depositAmount = Some(0)]

\* updateDoc rejects an update that holds an undefined value: the referral
\* percentage of an account listed without one, a field of the chosen type
\* that the listed account lacks and the form was not given.
UpdateDefined(editingAccount) ==
  /\ Truthy(editingAccount.referralPercentage)
  /\ IF editingAccount.type = "pph"
     THEN /\ editingAccount.username # None /\ editingAccount.websiteURL # None
          /\ editingAccount.password # None /\ editingAccount.deal # None
     ELSE /\ editingAccount.name # None /\ editingAccount.sharePercentage # None
          /\ editingAccount.depositAmount # None

\* The document after updateDoc(updateData): type, account holder, status
\* and referral are written, and the fields of the chosen type; the fields
\* of the other type stay as they are stored.
UpdatedAccount(stored, editingAccount) ==
  LET common == [stored EXCEPT !.type = editingAccount.type,
                               !.agentId = editingAccount.agentId,
                               !.status = editingAccount.status,
                               !.referralPercentage = editingAccount.referralPercentage]
  IN  IF editingAccount.type = "pph"
      THEN [common EXCEPT !.username = Some(Trim(editingAccount.username[1])),
                          !.websiteURL = Some(Trim(editingAccount.websiteURL[1])),
                          !.password = Some(Trim(editingAccount.password[1])),
                          !.deal = Some(Trim(editingAccount.deal[1]))]
      ELSE [common EXCEPT !.name = Some(Trim(editingAccount.name[1])),
                          !.sharePercentage = editingAccount.sharePercentage,
                          !.depositAmount = editingAccount.depositAmount]

\* handleEditAccount with the whole edit form: the update is written when
\* updateDoc accepts it, and fetchAccounts is called.
handleEditAccountForm(type, agentId, pane) ==
  /\ accounts # Null
  /\ LET editingAccount == EditedAccount(accounts, type, agentId, pane) IN
     /\ UpdateDefined(editingAccount)
     /\ db' = [db EXCEPT !.account = UpdatedAccount(@, editingAccount)]
  /\ fetches' = fetches \cup {"fetchAccounts"}
  /\ UNCHANGED <<userData, account, broker, entries, currentEntry,
                 editingEntry, taxRate, loading, pending, accounts, remembered, inactivePlayers>>

\* The accounts the screen may find when it is opened: none, or one of
\* either type as handleAddAccount builds it, with or without the referral
\* percentage that the entry screen reads.
KindAccounts ==
  { NoDoc } \cup
  { [ AddedAccount(f) EXCEPT !.referralPercentage = r ] :
      f \in { g \in NewAccountForms :
                /\ g.agentId = "a1" /\ g.username = "user" /\ g.websiteURL = "site"
                /\ g.password = "pw" /\ g.name = "name"
                /\ g.depositAmount = Some(500) },
      r \in {None, Some(5)} }

InitKinds ==
  /\ \E stored \in KindAccounts :
       db = [ Store(BaseConfig) EXCEPT !.account = stored, !.entries = <<>> ]
  /\ userData = Null
  /\ account = Null
  /\ broker = Null
  /\ entries = <<>>
  /\ currentEntry = InitialEntry
  /\ editingEntry = Null
  /\ taxRate = DefaultTaxRate
  /\ loading = TRUE
  /\ fetches = {"fetchAccounts"}
  /\ pending = {}
  /\ accounts = Null
  /\ remembered = Null
  /\ inactivePlayers = {}

NextKinds ==
  \/ \E newAccount \in NewAccountForms : handleAddAccount(newAccount)
  \/ mountAccounts
  \/ fetchAccounts
  \/ \E type \in {"pph", "legal"}, agentId \in {"", "a1"}, pane \in Panes :
       handleEditAccountForm(type, agentId, pane)

\* The admin on the Accounts screen, adding an account and editing it.
SpecKinds == InitKinds /\ [][NextKinds]_vars

\* A field that is stored and not empty.
Has(field) == field # None /\ field[1] # ""

\* C23: every stored account has a non-empty agentId, a pph account has a
\* username and a websiteURL, a legal account has a name and a deposit
\* amount, and no account carries fields of both types.
C23_AccountKind ==
  db.account.exists =>
    /\ db.account.agentId # ""
    /\ db.account.type = "pph" =>
         Has(db.account.username) /\ Has(db.account.websiteURL)
    /\ db.account.type = "legal" =>
         Has(db.account.name) /\ db.account.depositAmount # None
    /\ ~ /\ db.account.username # None \/ db.account.websiteURL # None
         /\ db.account.name # None \/ db.account.depositAmount # None


----------------------------------------------------------------------------
(* Players: the pending store, the active store and the sign-in *)

\* Documents and sign-in accounts the store creates in one exploration.
MaxIds == 3

Emails == {"e1"}
Passwords == {"p1", "p2"}

\* The percentage field of the add form: None when it is left empty.
PercentageInputs == {None, Some(50)}

\* The collections 'players' and 'users', the accounts of the sign-in
\* service, the user signed in on the player's browser, the next id given.
AuthStore ==
  [ players |-> {}, users |-> {}, auth |-> {}, currentUser |-> None,
    nextId |-> 1 ]

\* A call suspended at an await: whose it is, which await, what it holds.
Step(op, at, email, password, player, uid) ==
  [ op |-> op, at |-> at, email |-> email, password |-> password,
    player |-> player, uid |-> uid ]

FetchPlayersStep == Step("fetchPlayers", "getDocs", "", "", Null, None)

ListenerStep(uid) == Step("onAuthStateChanged", "getDoc", "", "", Null, uid)

\* The listener is called when the signed-in user changes.
Notified(uid) == IF db.currentUser # uid THEN {ListenerStep(uid)} ELSE {}

\* Players.handleAddPlayer: a pending record with the percentage of the
\* form, Number(text) || 0; then fetchPlayers is called.  The form's email,
\* password and name are not empty.
handleAddPlayer(email, password, percentage) ==
  /\ db.nextId <= MaxIds
  /\ db' = [ db EXCEPT
               !.players = @ \cup
                  { [ id |-> db.nextId, email |-> email, password |-> password,
                      role |-> "player", status |-> "pending",
                      percentage |-> Some(OrZero(percentage)) ] },
               !.nextId = @ + 1 ]
  /\ fetches' = fetches \cup {FetchPlayersStep}
  /\ UNCHANGED <<userData, account, broker, entries, currentEntry, editingEntry,
                 taxRate, loading, pending, accounts, remembered, inactivePlayers>>

\* fetchPlayers returns: the list of pending players is the collection.
fetchPlayers ==
  /\ FetchPlayersStep \in fetches
  /\ fetches' = fetches \ {FetchPlayersStep}
  /\ inactivePlayers' = db.players
  /\ UNCHANGED <<db, userData, account, broker, entries, currentEntry,
                 editingEntry, taxRate, loading, pending, accounts, remembered>>

\* The user document Players.activatePlayer adds.
ActivatedByAdmin(playerToActivate, id) ==
  [ id |-> id, uid |-> None, email |-> playerToActivate.email,
    role |-> "player", percentage |-> None ]

\* Players.activatePlayer on a listed pending player: a user document is
\* added under a new id, the pending record is deleted, fetchPlayers is called.
activatePlayer(playerId) ==
  /\ db.nextId <= MaxIds
  /\ \E playerToActivate \in inactivePlayers :
       /\ playerToActivate.id = playerId
       /\ db' = [ db EXCEPT
                    !.users = @ \cup {ActivatedByAdmin(playerToActivate, db.nextId)},
                    !.players = {p \in @ : p.id # playerId},
                    !.nextId = @ + 1 ]
  /\ fetches' = fetches \cup {FetchPlayersStep}
  /\ UNCHANGED <<userData, account, broker, entries, currentEntry, editingEntry,
                 taxRate, loading, pending, accounts, remembered, inactivePlayers>>

\* Players.handleDeletePlayer: the document of that id is deleted from the
\* collection of its list, then fetchPlayers is called.
handleDeletePlayer(playerId, isActive) ==
  /\ IF isActive
     THEN /\ \E u \in db.users : u.id = playerId
          /\ db' = [db EXCEPT !.users = {u \in @ : u.id # playerId}]
     ELSE /\ \E p \in inactivePlayers : p.id = playerId
          /\ db' = [db EXCEPT !.players = {p \in @ : p.id # playerId}]
  /\ fetches' = fetches \cup {FetchPlayersStep}
  /\ UNCHANGED <<userData, account, broker, entries, currentEntry, editingEntry,
                 taxRate, loading, pending, accounts, remembered, inactivePlayers>>

\* The accounts of the sign-in service that email and password open.
SignIn(email, password) ==
  {a \in db.auth : a.email = email /\ a.password = password}

\* Login.handleSubmit, up to the end of signInWithEmailAndPassword.  The
\* login page is shown while userData is null, and its button is disabled
\* while a submission is on its way.  A sign-in that succeeds notifies the
\* listener and goes on in login(); one that fails goes on to the query of
\* the pending players.
Login_handleSubmit(email, password) ==
  /\ userData = Null
  /\ \A h \in fetches : h.op # "handleSubmit"
  /\ IF SignIn(email, password) # {}
     THEN \E a \in SignIn(email, password) :
            /\ db' = [db EXCEPT !.currentUser = Some(a.uid)]
            /\ fetches' = fetches \cup Notified(Some(a.uid))
                 \cup {Step("handleSubmit", "login", email, password, Null, Some(a.uid))}
     ELSE /\ db' = db
          /\ fetches' = fetches
               \cup {Step("handleSubmit", "getDocs", email, password, Null, None)}
  /\ UNCHANGED <<userData, account, broker, entries, currentEntry, editingEntry,
                 taxRate, loading, pending, accounts, remembered, inactivePlayers>>

\* The user document of that uid, as getDoc(doc(db, 'users', uid)) finds it.
UserDoc(uid) == {u \in db.users : Some(u.id) = uid}

\* login(): its getDoc returns; userData is set when the document exists.
\* The submission ends.
login(h) ==
  /\ h \in fetches /\ h.op = "handleSubmit" /\ h.at = "login"
  /\ fetches' = fetches \ {h}
  /\ userData' = IF UserDoc(h.uid) # {}
                 THEN CHOOSE u \in UserDoc(h.uid) : TRUE ELSE userData
  /\ UNCHANGED <<db, account, broker, entries, currentEntry, editingEntry,
                 taxRate, loading, pending, accounts, remembered, inactivePlayers>>

\* The pending players that email and password match.
PendingPlayers(email, password) ==
  {p \in db.players : p.email = email /\ p.password = password /\ p.status = "pending"}

\* The query of the pending players returns: without a match the login error
\* is thrown again and the submission ends; with one, docs[0] is activated.
Login_getDocs(h) ==
  /\ h \in fetches /\ h.op = "handleSubmit" /\ h.at = "getDocs"
  /\ IF PendingPlayers(h.email, h.password) = {}
     THEN fetches' = fetches \ {h}
     ELSE \E playerData \in PendingPlayers(h.email, h.password) :
            fetches' = (fetches \ {h})
              \cup {[h EXCEPT !.at = "createUser", !.player = playerData]}
  /\ UNCHANGED <<db, userData, account, broker, entries, currentEntry,
                 editingEntry, taxRate, loading, pending, accounts, remembered,
                 inactivePlayers>>

\* createUserWithEmailAndPassword returns: an email that has an account is
\* refused and the submission ends; otherwise the account is created, its
\* user is signed in and the listener is notified.
Login_createUser(h) ==
  /\ h \in fetches /\ h.op = "handleSubmit" /\ h.at = "createUser"
  /\ IF \E a \in db.auth : a.email = h.email
     THEN /\ fetches' = fetches \ {h}
          /\ db' = db
     ELSE /\ db.nextId <= MaxIds
          /\ db' = [ db EXCEPT
                       !.auth = @ \cup { [ uid |-> db.nextId, email |-> h.email,
                                           password |-> h.password ] },
                       !.currentUser = Some(db.nextId),
                       !.nextId = @ + 1 ]
          /\ fetches' = (fetches \ {h}) \cup Notified(Some(db.nextId))
               \cup {[h EXCEPT !.at = "setDoc", !.uid = Some(db.nextId)]}
  /\ UNCHANGED <<userData, account, broker, entries, currentEntry, editingEntry,
                 taxRate, loading, pending, accounts, remembered, inactivePlayers>>

\* The user document Login.handleSubmit writes.
ActivatedByLogin(h) ==
  [ id |-> h.uid[1], uid |-> h.uid, email |-> h.email, role |-> "player",
    percentage |-> None ]

\* setDoc(doc(db, 'users', user.uid), ...) returns.
Login_setDoc(h) ==
  /\ h \in fetches /\ h.op = "handleSubmit" /\ h.at = "setDoc"
  /\ db' = [db EXCEPT !.users = @ \cup {ActivatedByLogin(h)}]
  /\ fetches' = (fetches \ {h}) \cup {[h EXCEPT !.at = "deleteDoc"]}
  /\ UNCHANGED <<userData, account, broker, entries, currentEntry, editingEntry,
                 taxRate, loading, pending, accounts, remembered, inactivePlayers>>

\* deleteDoc of the pending record returns and the submission ends.
Login_deleteDoc(h) ==
  /\ h \in fetches /\ h.op = "handleSubmit" /\ h.at = "deleteDoc"
  /\ db' = [db EXCEPT !.players = {p \in @ : p.id # h.player.id}]
  /\ fetches' = fetches \ {h}
  /\ UNCHANGED <<userData, account, broker, entries, currentEntry, editingEntry,
                 taxRate, loading, pending, accounts, remembered, inactivePlayers>>

\* The listener of AuthProvider, called with a user: its getDoc returns, and
\* userData is the document, or null when there is none.
onAuthStateChanged(l) ==
  /\ l \in fetches /\ l.op = "onAuthStateChanged"
  /\ fetches' = fetches \ {l}
  /\ userData' = IF UserDoc(l.uid) # {}
                 THEN CHOOSE u \in UserDoc(l.uid) : TRUE ELSE Null
  /\ UNCHANGED <<db, account, broker, entries, currentEntry, editingEntry,
                 taxRate, loading, pending, accounts, remembered, inactivePlayers>>

\* logout() of a player inside the application: signOut, and userData is
\* null (the listener, called without a user, sets null as well).
logout ==
  /\ userData # Null
  /\ db.currentUser # None
  /\ db' = [db EXCEPT !.currentUser = None]
  /\ userData' = Null
  /\ UNCHANGED <<account, broker, entries, currentEntry, editingEntry, taxRate,
                 loading, fetches, pending, accounts, remembered, inactivePlayers>>

\* The login page of a browser and the Players screen of the admin are
\* open over empty collections.
InitAuth ==
  /\ db = AuthStore
  /\ userData = Null
  /\ account = Null
  /\ broker = Null
  /\ entries = <<>>
  /\ currentEntry = InitialEntry
  /\ editingEntry = Null
  /\ taxRate = DefaultTaxRate
  /\ loading = TRUE
  /\ fetches = {FetchPlayersStep}
  /\ pending = {}
  /\ accounts = Null
  /\ remembered = Null
  /\ inactivePlayers = {}

\* The steps that end an await of the player's browser.
LoginSteps ==
  \/ \E h \in fetches : login(h)
  \/ \E h \in fetches : Login_getDocs(h)
  \/ \E h \in fetches : Login_createUser(h)
  \/ \E h \in fetches : Login_setDoc(h)
  \/ \E h \in fetches : Login_deleteDoc(h)

NextAuth ==
  \/ \E email \in Emails, password \in Passwords, percentage \in PercentageInputs :
       handleAddPlayer(email, password, percentage)
  \/ fetchPlayers
  \/ \E playerId \in 1..MaxIds : activatePlayer(playerId)
  \/ \E playerId \in 1..MaxIds, isActive \in BOOLEAN :
       handleDeletePlayer(playerId, isActive)
  \/ \E email \in Emails, password \in Passwords : Login_handleSubmit(email, password)
  \/ LoginSteps
  \/ \E l \in fetches : onAuthStateChanged(l)
  \/ logout

\* An admin on the Players screen and a player on the login page.
SpecAuth == InitAuth /\ [][NextAuth]_vars

\* The same, with every awaited call of the player's browser returning:
\* the store and the sign-in service answer each request.
SpecAuthFair ==
  /\ SpecAuth
  /\ WF_vars(LoginSteps)
  /\ WF_vars(\E l \in fetches : onAuthStateChanged(l))


\* The submission h of the login form ends in this step.
Finishes(h) ==
  /\ h \in fetches /\ h.op = "handleSubmit"
  /\ \A g \in fetches' : g.op # "handleSubmit"

\* The pending records of a collection that carry that email and password.
Matching(players, email, password) ==
  {p \in players : p.email = email /\ p.password = password}

\* C21: activation is one-way.  A submission of the login form that ends
\* while a pending record carries its email and password ends as an
\* activation: it has written the user document of the player and its last
\* step is the deletion of the pending record it found; and no step takes a
\* user out of 'users' and puts a record of the same email into 'players'.
C21_OneWayActivation ==
  [][ /\ \A h \in fetches :
           (Finishes(h) /\ Matching(db.players, h.email, h.password) # {})
             => /\ h.at = "deleteDoc"
                /\ h.player \notin db'.players
      /\ \A u \in db.users \ db'.users :
           \A p \in db'.players \ db.players : p.email # u.email ]_vars

\* The activation by login has run to its end for the user signed in: the
\* user document is written and no submission is on its way.
ActivationCompleted ==
  /\ db.currentUser # None
  /\ \E u \in db.users : u.uid = db.currentUser
  /\ \A h \in fetches : h.op # "handleSubmit"

\* AuthProvider holds the signed-in player's document; the effect of the
\* login page then navigates away.
HoldsPlayer ==
  /\ userData # Null
  /\ userData.uid = db.currentUser
  /\ userData.role = "player"

\* C27: once the activation has run to its end, the listener eventually
\* holds the player's userData with role 'player' (unless the player is
\* signed out or deleted meanwhile), however its read of users/{uid} fell
\* against the write of that document.
C27_ListenerHoldsPlayer ==
  ActivationCompleted ~> (HoldsPlayer \/ ~ActivationCompleted)

\* C30: a user document that an activation adds, by login or by the admin,
\* gives the player the commission rate of the pending record of that
\* email: clickerAmount of the same profit is the same with either.
C30_PercentagePreserved ==
  [][ \A u \in db'.users \ db.users :
        \A p \in db.players \cup inactivePlayers :
          p.email = u.email =>
            ClickerAmount(Percent, u) = ClickerAmount(Percent, p) ]_vars

====
